---------------------------- MODULE Spec2Model ----------------------------
(***************************************************************************)
(* A model of the lightweight descheduler: the eviction gatekeeper         *)
(* (pkg/eviction/evictor.go), the three strategies (RemoveFailedPods,      *)
(* LowNodeUtilization, RemoveDuplicates) and the scheduler loop that runs  *)
(* them once per cycle.                                                    *)
(***************************************************************************)
EXTENDS Integers, Sequences, FiniteSets, TLC

VARIABLES
    file,        \* the configuration file as yaml.Unmarshal reads it: <<c>>, or <<>>
                 \* when the configuration was not loaded from a file
    ticker,      \* Run's ticker.C: the ticks sent and not yet received
    config,      \* *config.Config: DryRun, Interval, Limits, Strategies
    cluster,     \* what the cluster API lists: [nodes, pods], in listing order
    stats,       \* DefaultPodEvictor.stats (EvictionStats)
    mu,          \* DefaultPodEvictor.mu (sync.RWMutex): [writer, readers]
    pc,          \* Scheduler.Run / runOnce: where the control loop stands
    cancelled,   \* ctx.Done() is closed
    sched,       \* locals of runOnce and of the running strategy
    attempts,    \* the EvictPod calls of the current cycle, in order, with results
    apiCalls,    \* the platform eviction calls of the current cycle, in order
    resetDirty,  \* the last ResetStats discarded non-zero statistics
    last,        \* the last call made on the PodEvictor interface and what it returned
    memo,        \* the first CanEvictPod call made on the interface and what it returned;
                 \* for GeneratePodSignature, the call before the last
    callers      \* goroutines calling the PodEvictor concurrently: their positions

vars == <<file, ticker, config, cluster, stats, mu, pc, cancelled, sched, attempts, apiCalls,
          resetDirty, last, memo, callers>>

----------------------------------------------------------------------------
(* Bounds of the model *)

\* Largest value a configured eviction limit takes (0 disables the limit).
MaxLimit == 2
\* Number of pods of a cluster snapshot.
NumPods == 3
\* Direct calls on the gatekeeper stop once this many evictions were counted.
MaxEvictions == 3
\* Direct calls on the gatekeeper stop once this many evictions failed.
MaxFailures == 1
\* Number of goroutines that call the gatekeeper concurrently.
NumCallers == 2

\* The pod listings that fail in a cycle while the context is not cancelled.
MaxListFailures == 1

----------------------------------------------------------------------------
(* Go values *)

\* A Go map[string]int: a function on the keys present; a missing key reads 0.
EmptyMap == [k \in {} |-> 0]

Get(m, k) == IF k \in DOMAIN m THEN m[k] ELSE 0

\* m[k]++
Incr(m, k) == [x \in (DOMAIN m) \cup {k} |-> IF x = k THEN Get(m, k) + 1 ELSE m[x]]

\* Sum of the values of a map.
RECURSIVE SumOver(_, _)
SumOver(m, keys) ==
    IF keys = {} THEN 0
    ELSE LET k == CHOOSE x \in keys : TRUE IN m[k] + SumOver(m, keys \ {k})

MapSum(m) == SumOver(m, DOMAIN m)

\* utils.Contains
Contains(slice, item) == \E i \in 1..Len(slice) : slice[i] = item

Min2(a, b) == IF a < b THEN a ELSE b

Max2(a, b) == IF a > b THEN a ELSE b

----------------------------------------------------------------------------
(* The workload view (v1.Pod) *)

StaticAnnotation == "kubernetes.io/config.source"

NoAnnotations == [k \in {} |-> ""]

Owner(kind, name) == [Kind |-> kind, Name |-> name]

Container(image, cpu, memory) == [Image |-> image, CPU |-> cpu, Memory |-> memory]

\* A volume: which of the volume sources is non-nil.
Volume(src) == [HostPath |-> src = "hostPath", EmptyDir |-> src = "emptyDir"]

\* A Running pod of ReplicaSet web in namespace default on node n1: evictable.
\* Priority and DeletionTimestamp are pointers: <<>> is nil, <<v>> points to v.
BasePod ==
    [Name |-> "web-1", Namespace |-> "default", NodeName |-> "n1",
     Phase |-> "Running", Reason |-> "",
     PriorityClassName |-> "", Priority |-> <<>>,
     OwnerReferences |-> <<Owner("ReplicaSet", "web")>>,
     Annotations |-> NoAnnotations,
     DeletionTimestamp |-> <<>>,
     Volumes |-> <<>>,
     Containers |-> <<Container("nginx", 500, 500)>>,
     CreationTimestamp |-> 0]

----------------------------------------------------------------------------
(* pkg/eviction/evictor.go: CanEvictPod and its six checks *)

SystemNamespaces == <<"kube-system", "kube-public", "kube-node-lease">>

isSystemCriticalPod(pod) ==
    \/ pod.PriorityClassName = "system-cluster-critical"
    \/ pod.PriorityClassName = "system-node-critical"
    \/ \E i \in 1..Len(SystemNamespaces) : pod.Namespace = SystemNamespaces[i]

isDaemonSetPod(pod) ==
    \E i \in 1..Len(pod.OwnerReferences) : pod.OwnerReferences[i].Kind = "DaemonSet"

isStaticPod(pod) ==
    /\ StaticAnnotation \in DOMAIN pod.Annotations
    /\ pod.Annotations[StaticAnnotation] = "file"

isStandalonePod(pod) == Len(pod.OwnerReferences) = 0

hasLocalStorage(pod) ==
    \E i \in 1..Len(pod.Volumes) : pod.Volumes[i].HostPath \/ pod.Volumes[i].EmptyDir

Verdict(ok, reason) == [ok |-> ok, reason |-> reason]

\* A CanEvictPod that tests the DaemonSet owner before the system-critical rule.
CanEvictPodDaemonSetFirst(pod) ==
    IF isDaemonSetPod(pod) THEN Verdict(FALSE, "daemonset pod")
    ELSE IF isSystemCriticalPod(pod) THEN Verdict(FALSE, "system critical pod")
    ELSE IF isStaticPod(pod) THEN Verdict(FALSE, "static pod")
    ELSE IF isStandalonePod(pod) /\ pod.Phase # "Failed"
        THEN Verdict(FALSE, "standalone pod (not failed)")
    ELSE IF pod.DeletionTimestamp # <<>> THEN Verdict(FALSE, "pod is being deleted")
    ELSE IF hasLocalStorage(pod) THEN Verdict(FALSE, "pod has local storage")
    ELSE Verdict(TRUE, "")

\* A CanEvictPod that consults the quota counters.
CanEvictPodReadsStats(pod) ==
    IF stats.TotalEvicted > 0 THEN Verdict(FALSE, "eviction limit reached")
    ELSE IF isSystemCriticalPod(pod) THEN Verdict(FALSE, "system critical pod")
    ELSE IF isDaemonSetPod(pod) THEN Verdict(FALSE, "daemonset pod")
    ELSE IF isStaticPod(pod) THEN Verdict(FALSE, "static pod")
    ELSE IF isStandalonePod(pod) /\ pod.Phase # "Failed"
        THEN Verdict(FALSE, "standalone pod (not failed)")
    ELSE IF pod.DeletionTimestamp # <<>> THEN Verdict(FALSE, "pod is being deleted")
    ELSE IF hasLocalStorage(pod) THEN Verdict(FALSE, "pod has local storage")
    ELSE Verdict(TRUE, "")

CanEvictPod(pod) ==
    IF isSystemCriticalPod(pod) THEN Verdict(FALSE, "system critical pod")
    ELSE IF isDaemonSetPod(pod) THEN Verdict(FALSE, "daemonset pod")
    ELSE IF isStaticPod(pod) THEN Verdict(FALSE, "static pod")
    ELSE IF isStandalonePod(pod) /\ pod.Phase # "Failed"
        THEN Verdict(FALSE, "standalone pod (not failed)")
    ELSE IF pod.DeletionTimestamp # <<>> THEN Verdict(FALSE, "pod is being deleted")
    ELSE IF hasLocalStorage(pod) THEN Verdict(FALSE, "pod has local storage")
    ELSE Verdict(TRUE, "")

----------------------------------------------------------------------------
(* pkg/eviction/evictor.go: statistics, limits, EvictPod *)

\* NewDefaultPodEvictor / ResetStats: the zero EvictionStats with three empty maps.
ZeroStats ==
    [TotalEvicted |-> 0, FailedEvictions |-> 0,
     EvictedByNode |-> EmptyMap, EvictedByNamespace |-> EmptyMap,
     EvictedByReason |-> EmptyMap]

\* An error value: nil, one of the three limit errors, or the eviction API's error.
Err(kind, key, limit) == [kind |-> kind, key |-> key, limit |-> limit]

Nil == Err("nil", "", 0)

ApiError == Err("api", "", 0)

IsQuotaError(e) == e.kind \in {"total", "node", "namespace"}

\* checkEvictionLimits without the per-node test.
checkEvictionLimitsNoNode(st, pod) ==
    LET limits == config.Limits IN
    IF limits.MaxPodsToEvictTotal > 0 /\ st.TotalEvicted >= limits.MaxPodsToEvictTotal
        THEN Err("total", "", limits.MaxPodsToEvictTotal)
    ELSE IF /\ limits.MaxPodsToEvictPerNamespace > 0
            /\ Get(st.EvictedByNamespace, pod.Namespace) >= limits.MaxPodsToEvictPerNamespace
        THEN Err("namespace", pod.Namespace, limits.MaxPodsToEvictPerNamespace)
    ELSE Nil

\* checkEvictionLimits comparing with > where the code compares with >=.
checkEvictionLimitsOffByOne(st, pod) ==
    LET limits == config.Limits IN
    IF limits.MaxPodsToEvictTotal > 0 /\ st.TotalEvicted > limits.MaxPodsToEvictTotal
        THEN Err("total", "", limits.MaxPodsToEvictTotal)
    ELSE IF /\ limits.MaxPodsToEvictPerNode > 0 /\ pod.NodeName # ""
            /\ Get(st.EvictedByNode, pod.NodeName) > limits.MaxPodsToEvictPerNode
        THEN Err("node", pod.NodeName, limits.MaxPodsToEvictPerNode)
    ELSE IF /\ limits.MaxPodsToEvictPerNamespace > 0
            /\ Get(st.EvictedByNamespace, pod.Namespace) > limits.MaxPodsToEvictPerNamespace
        THEN Err("namespace", pod.Namespace, limits.MaxPodsToEvictPerNamespace)
    ELSE Nil

checkEvictionLimits(st, pod) ==
    LET limits == config.Limits IN
    IF limits.MaxPodsToEvictTotal > 0 /\ st.TotalEvicted >= limits.MaxPodsToEvictTotal
        THEN Err("total", "", limits.MaxPodsToEvictTotal)
    ELSE IF /\ limits.MaxPodsToEvictPerNode > 0 /\ pod.NodeName # ""
            /\ Get(st.EvictedByNode, pod.NodeName) >= limits.MaxPodsToEvictPerNode
        THEN Err("node", pod.NodeName, limits.MaxPodsToEvictPerNode)
    ELSE IF /\ limits.MaxPodsToEvictPerNamespace > 0
            /\ Get(st.EvictedByNamespace, pod.Namespace) >= limits.MaxPodsToEvictPerNamespace
        THEN Err("namespace", pod.Namespace, limits.MaxPodsToEvictPerNamespace)
    ELSE Nil

updateStatsChargesNoNode(st, pod, reason, success) ==
    IF success
    THEN [st EXCEPT
            !.TotalEvicted = @ + 1,
            !.EvictedByNode = Incr(@, pod.NodeName),
            !.EvictedByNamespace = Incr(@, pod.Namespace),
            !.EvictedByReason = Incr(@, reason)]
    ELSE st

updateStats(st, pod, reason, success) ==
    IF success
    THEN [st EXCEPT
            !.TotalEvicted = @ + 1,
            !.EvictedByNode = IF pod.NodeName # "" THEN Incr(@, pod.NodeName) ELSE @,
            !.EvictedByNamespace = Incr(@, pod.Namespace),
            !.EvictedByReason = Incr(@, reason)]
    ELSE st

\* An EvictPod whose dry-run branch also calls the platform eviction API.
EvictPodOutcomesDryRunCallsApi(st, pod, reason) ==
    LET limitErr == checkEvictionLimits(st, pod) IN
    IF limitErr # Nil
        THEN {[err |-> limitErr, stats |-> st, api |-> FALSE]}
    ELSE {[err |-> ApiError,
           stats |-> [st EXCEPT !.FailedEvictions = @ + 1], api |-> TRUE],
          [err |-> Nil, stats |-> updateStats(st, pod, reason, TRUE), api |-> TRUE]}

\* An EvictPod that counts a quota rejection as a failed eviction.
EvictPodOutcomesRejectionCounted(st, pod, reason) ==
    LET limitErr == checkEvictionLimits(st, pod) IN
    IF limitErr # Nil
        THEN {[err |-> limitErr,
               stats |-> [st EXCEPT !.FailedEvictions = @ + 1], api |-> FALSE]}
    ELSE IF config.DryRun
        THEN {[err |-> Nil, stats |-> updateStats(st, pod, reason, TRUE), api |-> FALSE]}
    ELSE {[err |-> ApiError,
           stats |-> [st EXCEPT !.FailedEvictions = @ + 1], api |-> TRUE],
          [err |-> Nil, stats |-> updateStats(st, pod, reason, TRUE), api |-> TRUE]}

\* An EvictPod that updates the success counters before calling the API, so that a
\* failed eviction consumes quota.
EvictPodOutcomesFailureCounted(st, pod, reason) ==
    LET limitErr == checkEvictionLimits(st, pod) IN
    IF limitErr # Nil
        THEN {[err |-> limitErr, stats |-> st, api |-> FALSE]}
    ELSE IF config.DryRun
        THEN {[err |-> Nil, stats |-> updateStats(st, pod, reason, TRUE), api |-> FALSE]}
    ELSE {[err |-> ApiError,
           stats |-> [updateStats(st, pod, reason, TRUE) EXCEPT !.FailedEvictions = @ + 1],
           api |-> TRUE],
          [err |-> Nil, stats |-> updateStats(st, pod, reason, TRUE), api |-> TRUE]}

\* What one EvictPod call can do from statistics st: the error it returns, the
\* statistics it leaves, and whether it called the platform eviction API. The API
\* call succeeds or fails as the platform decides; made with a cancelled context
\* it fails.
EvictPodOutcomes(st, pod, reason) ==
    LET limitErr == checkEvictionLimits(st, pod) IN
    IF limitErr # Nil
        THEN {[err |-> limitErr, stats |-> st, api |-> FALSE]}
    ELSE IF config.DryRun
        THEN {[err |-> Nil, stats |-> updateStats(st, pod, reason, TRUE), api |-> FALSE]}
    ELSE {[err |-> ApiError,
           stats |-> [st EXCEPT !.FailedEvictions = @ + 1], api |-> TRUE]}
         \cup (IF cancelled THEN {}
               ELSE {[err |-> Nil, stats |-> updateStats(st, pod, reason, TRUE),
                      api |-> TRUE]})

\* GetEvictionStats: a copy of the counters and of the three maps.
GetEvictionStats == stats

\* A GetEvictionStats that returns the struct e.stats: the two counters are
\* copied, the three maps are the evictor's.
GetEvictionStatsReturnsStruct == [got |-> stats, shared |-> TRUE]

\* What GetEvictionStats returns: a struct with the two counters and three maps
\* made by make, filled key by key from the evictor's.
GetEvictionStatsResult ==
    [got |-> [TotalEvicted |-> stats.TotalEvicted,
              FailedEvictions |-> stats.FailedEvictions,
              EvictedByNode |-> [k \in DOMAIN stats.EvictedByNode |-> stats.EvictedByNode[k]],
              EvictedByNamespace |->
                [k \in DOMAIN stats.EvictedByNamespace |-> stats.EvictedByNamespace[k]],
              EvictedByReason |->
                [k \in DOMAIN stats.EvictedByReason |-> stats.EvictedByReason[k]]],
     shared |-> FALSE]

----------------------------------------------------------------------------
(* pkg/utils: nodes *)

Condition(type, status) == [Type |-> type, Status |-> status]

\* The status of the first condition of type Ready decides; none: not ready.
RECURSIVE IsReadyFrom(_, _)
IsReadyFrom(conds, i) ==
    IF i > Len(conds) THEN FALSE
    ELSE IF conds[i].Type = "Ready" THEN conds[i].Status = "True"
    ELSE IsReadyFrom(conds, i + 1)

IsReadyNode(node) == IsReadyFrom(node.Conditions, 1)

IsSchedulableNode(node) == ~node.Unschedulable

FilterReady(node) == IsReadyNode(node) /\ IsSchedulableNode(node)

FilterReadySchedulableNodes(nodes) == SelectSeq(nodes, FilterReady)

----------------------------------------------------------------------------
(* the scheduler: node discovery *)

\* Scheduler.getAvailableNodes on a successful listing.
getAvailableNodes == SelectSeq(cluster.nodes, FilterReady)

\* A nodeMatchesSelector that asks for the selector's keys, whatever their value.
nodeMatchesSelectorKeysOnly(node) ==
    \A key \in DOMAIN config.NodeSelector : key \in DOMAIN node.Labels

nodeMatchesSelector(node) ==
    \A key \in DOMAIN config.NodeSelector :
        key \in DOMAIN node.Labels /\ node.Labels[key] = config.NodeSelector[key]

filterNodesBySelector(nodes) ==
    IF DOMAIN config.NodeSelector = {} THEN nodes
    ELSE SelectSeq(nodes, nodeMatchesSelector)

\* Pods("").List with the field selector spec.nodeName=<nodeName>, in listing order.
ListPodsOnNode(nodeName) ==
    LET OnNode(pod) == pod.NodeName = nodeName IN SelectSeq(cluster.pods, OnNode)

----------------------------------------------------------------------------
(* strategy.go: the strategy factory *)

\* A factory that appends LowNodeUtilization before RemoveFailedPods.
StrategyOrderUtilizationFirst ==
    <<"LowNodeUtilization", "RemoveFailedPods", "RemoveDuplicates">>

StrategyOrder == <<"RemoveFailedPods", "LowNodeUtilization", "RemoveDuplicates">>

\* A strategy's configuration is a pointer: <<>> is nil, <<c>> points to c.
IsEnabled(name) ==
    LET c == config.Strategies[name] IN c # <<>> /\ c[1].Enabled

CreateStrategies == SelectSeq(StrategyOrder, IsEnabled)

----------------------------------------------------------------------------
(* remove_failed_pods.go *)

\* The clock read by time.Since, in seconds.
Now == 600

RFPConfig == config.Strategies["RemoveFailedPods"][1]

IsFailed(pod) == pod.Phase = "Failed"

getFailedPods(nodeName) == SelectSeq(ListPodsOnNode(nodeName), IsFailed)

\* A canEvictPod that lets every pod through.
RFP_canEvictPodAlways(pod) == Verdict(TRUE, "")

RFP_canEvictPod(pod) == CanEvictPod(pod)

\* A shouldProcessNamespace that looks at the excluded namespaces first.
RFP_shouldProcessNamespaceExcludedFirst(namespace) ==
    IF Len(RFPConfig.ExcludedNamespaces) > 0
        THEN ~Contains(RFPConfig.ExcludedNamespaces, namespace)
    ELSE IF Len(RFPConfig.IncludedNamespaces) > 0
        THEN Contains(RFPConfig.IncludedNamespaces, namespace)
    ELSE TRUE

RFP_shouldProcessNamespace(namespace) ==
    IF Len(RFPConfig.IncludedNamespaces) > 0
        THEN Contains(RFPConfig.IncludedNamespaces, namespace)
    ELSE IF Len(RFPConfig.ExcludedNamespaces) > 0
        THEN ~Contains(RFPConfig.ExcludedNamespaces, namespace)
    ELSE TRUE

\* A shouldEvictPod that takes the minimum lifetime for minutes.
RFP_shouldEvictPodInMinutes(pod) ==
    /\ RFP_shouldProcessNamespace(pod.Namespace)
    /\ ~(/\ RFPConfig.MinPodLifetimeSeconds > 0
         /\ Now - pod.CreationTimestamp < RFPConfig.MinPodLifetimeSeconds * 60)
    /\ ~(/\ Len(RFPConfig.ExcludeOwnerKinds) > 0
         /\ \E i \in 1..Len(pod.OwnerReferences) :
                Contains(RFPConfig.ExcludeOwnerKinds, pod.OwnerReferences[i].Kind))

RFP_shouldEvictPod(pod) ==
    /\ RFP_shouldProcessNamespace(pod.Namespace)
    /\ ~(/\ RFPConfig.MinPodLifetimeSeconds > 0
         /\ Now - pod.CreationTimestamp < RFPConfig.MinPodLifetimeSeconds)
    /\ ~(/\ Len(RFPConfig.ExcludeOwnerKinds) > 0
         /\ \E i \in 1..Len(pod.OwnerReferences) :
                Contains(RFPConfig.ExcludeOwnerKinds, pod.OwnerReferences[i].Kind))

RFP_reason(pod) ==
    "Failed pod cleanup - Phase: " \o pod.Phase
        \o (IF pod.Reason # "" THEN ", Reason: " \o pod.Reason ELSE "")

----------------------------------------------------------------------------
(* The control loop: Scheduler.Run and Scheduler.runOnce *)

\* The locals of runOnce and of the strategy it is executing, outside a cycle.
NoLocals ==
    [nodes |-> <<>>,        \* filteredNodes, passed to every strategy
     si |-> 0,              \* index of the strategy being executed
     ni |-> 0,              \* index of the node being processed
     pods |-> <<>>,         \* the pods being processed on that node
     pi |-> 0,              \* index of the pod being processed
     low |-> {},            \* LowNodeUtilization: the under-utilized nodes
     over |-> <<>>,         \* LowNodeUtilization: the over-utilized nodes
     evicted |-> 0,         \* LowNodeUtilization: evictions done on the node
     maxEvictions |-> 0,    \* LowNodeUtilization: the node's cap
     work |-> <<>>,         \* RemoveDuplicates: the pods to evict, with their node
     printed |-> FALSE,     \* printCycleStats was called in this cycle
     ran |-> <<>>,          \* the cycle's Execute calls that returned: [name, err]
     listings |-> <<>>,     \* the cycle's pod listings: [strategy, node, ok]
     err |-> "none",        \* what runOnce returned: nil or the error's text
     ret |-> "running"]     \* what Run returned: running, nil, or the error's text

gatekeeper == <<stats, attempts, apiCalls>>

harness == <<file, ticker, mu, last, memo, callers>>

\* One call of Evictor.EvictPod by a strategy, with the outcome out.
Attempt(strategy, pod, reason, out) ==
    /\ stats' = out.stats
    /\ attempts' = Append(attempts,
            [strategy |-> strategy, pod |-> pod, reason |-> reason, err |-> out.err])
    /\ apiCalls' = IF out.api THEN Append(apiCalls, pod.Name) ELSE apiCalls

\* A Run that enters the ticker loop whatever the interval.
CycleReturnAlwaysWaits(err, printed) ==
    /\ pc' = "idle"
    /\ sched' = [NoLocals EXCEPT
                    !.printed = printed,
                    !.ran = sched.ran,
                    !.listings = sched.listings,
                    !.err = err]

\* A Run whose ticker loop returns the error of a cycle.
CycleReturnStopsOnError(err, printed) ==
    /\ pc' = IF config.Interval = 0 \/ err # "nil" THEN "returned" ELSE "idle"
    /\ sched' = [NoLocals EXCEPT
                    !.printed = printed,
                    !.ran = sched.ran,
                    !.listings = sched.listings,
                    !.err = err,
                    !.ret = IF config.Interval = 0 \/ err # "nil" THEN err ELSE "running"]

\* runOnce returns err: Run returns it when interval is 0, and otherwise logs it
\* and waits for the ticker.
CycleReturn(err, printed) ==
    /\ pc' = IF config.Interval = 0 THEN "returned" ELSE "idle"
    /\ sched' = [NoLocals EXCEPT
                    !.printed = printed,
                    !.ran = sched.ran,
                    !.listings = sched.listings,
                    !.err = err,
                    !.ret = IF config.Interval = 0 THEN err ELSE "running"]

\* Run: the first cycle starts at once, whatever the interval.
Run ==
    /\ pc = "Run"
    /\ pc' = "runOnce"
    /\ UNCHANGED <<config, cluster, cancelled, sched, gatekeeper, resetDirty, harness>>

\* A ResetStats that zeroes the two counters and keeps the three maps.
ResetStatsKeepsMaps ==
    /\ stats' = [stats EXCEPT !.TotalEvicted = 0, !.FailedEvictions = 0]
    /\ resetDirty' = (stats # ZeroStats)

\* DefaultPodEvictor.ResetStats; resetDirty records that it discarded something.
ResetStats ==
    /\ stats' = ZeroStats
    /\ resetDirty' = (stats # ZeroStats)

\* runOnce, first step: reset the eviction statistics.
RunOnce_Reset ==
    /\ pc = "runOnce"
    /\ ResetStats
    /\ attempts' = <<>>
    /\ apiCalls' = <<>>
    /\ pc' = "getNodes"
    /\ sched' = NoLocals
    /\ UNCHANGED <<config, cluster, cancelled, harness>>

\* The error of a listing call that fails: the context's error when the call is
\* made with a cancelled context, and otherwise a failure of the platform.
ListErrors == IF cancelled THEN {"context canceled"} ELSE {"connection refused"}

\* runOnce: list the nodes, keep the available ones, apply the node selector. A
\* listing made with a cancelled context fails.
RunOnce_GetNodes ==
    /\ pc = "getNodes"
    /\ \/ \E err \in ListErrors :
            CycleReturn("failed to get available nodes: " \o err, FALSE)
       \/ LET nodes == getAvailableNodes
              filteredNodes == filterNodesBySelector(nodes)
          IN  /\ ~cancelled
              /\ IF Len(nodes) < 2 \/ Len(filteredNodes) = 0
                 THEN CycleReturn("nil", FALSE)
                 ELSE /\ pc' = "strategies"
                      /\ sched' = [sched EXCEPT !.nodes = filteredNodes, !.si = 1]
    /\ UNCHANGED <<config, cluster, cancelled, gatekeeper, resetDirty, harness>>

\* Where Execute of a strategy starts.
EntryOf(name) ==
    CASE name = "RemoveFailedPods" -> "rfp_node"
      [] name = "LowNodeUtilization" -> "lnu_begin"
      [] name = "RemoveDuplicates" -> "rd_begin"

\* runOnce: the loop over the strategies, then the cycle statistics.
RunOnce_Strategy ==
    /\ pc = "strategies"
    /\ IF sched.si > Len(CreateStrategies)
       THEN CycleReturn("nil", TRUE)
       ELSE IF ~IsEnabled(CreateStrategies[sched.si])
       THEN /\ pc' = pc
            /\ sched' = [sched EXCEPT !.si = @ + 1]
       ELSE /\ pc' = EntryOf(CreateStrategies[sched.si])
            /\ sched' = [sched EXCEPT !.ni = 1]
    /\ UNCHANGED <<config, cluster, cancelled, gatekeeper, resetDirty, harness>>

\* One pod listing by a strategy, and the listings of nodes[1..n], all successful.
Listing(strategy, nodeName, ok) == [strategy |-> strategy, node |-> nodeName, ok |-> ok]

ListingsOf(strategy, nodes, n) == [i \in 1..n |-> Listing(strategy, nodes[i].Name, TRUE)]

\* A pod listing can fail: always when the context is cancelled, and otherwise
\* when the platform fails, at most MaxListFailures times in a cycle.
ListingCanFail ==
    \/ cancelled
    \/ Cardinality({i \in DOMAIN sched.listings : ~sched.listings[i].ok}) < MaxListFailures

\* A runOnce that returns the error of a failed strategy instead of logging it.
ExecuteReturnsAndAborts(err, listings) ==
    IF err = "nil"
    THEN /\ pc' = "strategies"
         /\ sched' = [NoLocals EXCEPT
                        !.nodes = sched.nodes, !.si = sched.si + 1, !.listings = listings,
                        !.ran = Append(sched.ran,
                                    [name |-> CreateStrategies[sched.si], err |-> err])]
    ELSE /\ pc' = IF config.Interval = 0 THEN "returned" ELSE "idle"
         /\ sched' = [NoLocals EXCEPT
                        !.listings = listings,
                        !.ran = Append(sched.ran,
                                    [name |-> CreateStrategies[sched.si], err |-> err]),
                        !.err = err,
                        !.ret = IF config.Interval = 0 THEN err ELSE "running"]

\* Execute returns err after the listings: runOnce logs an error and goes on to
\* the next strategy.
ExecuteReturns(err, listings) ==
    /\ pc' = "strategies"
    /\ sched' = [NoLocals EXCEPT
                    !.nodes = sched.nodes, !.si = sched.si + 1, !.listings = listings,
                    !.ran = Append(sched.ran,
                                [name |-> CreateStrategies[sched.si], err |-> err])]

\* Execute returns nil.
StrategyReturn == ExecuteReturns("nil", sched.listings)

\* Run's select: the ticker fires and the next cycle starts.
Tick ==
    /\ pc = "idle"
    /\ pc' = "runOnce"
    /\ UNCHANGED <<config, cluster, cancelled, sched, gatekeeper, resetDirty, harness>>

\* Run's select: the context is done and Run returns ctx.Err().
CtxDone ==
    /\ pc = "idle"
    /\ cancelled
    /\ pc' = "returned"
    /\ sched' = [sched EXCEPT !.ret = "context canceled"]
    /\ UNCHANGED <<config, cluster, cancelled, gatekeeper, resetDirty, harness>>

\* main's signal handler cancels the context.
Cancel ==
    /\ ~cancelled
    /\ pc # "returned"
    /\ cancelled' = TRUE
    /\ UNCHANGED <<config, cluster, pc, sched, gatekeeper, resetDirty, harness>>

----------------------------------------------------------------------------
(* RemoveFailedPodsStrategy.Execute *)

\* The loop over the nodes: list the node's failed pods.
RFP_Node ==
    /\ pc = "rfp_node"
    /\ IF sched.ni > Len(sched.nodes)
       THEN StrategyReturn
       ELSE LET nodeName == sched.nodes[sched.ni].Name
                failedPods == getFailedPods(nodeName)
                listed(ok) == Append(sched.listings, Listing("RemoveFailedPods", nodeName, ok))
            IN  \/ /\ ListingCanFail  \* the listing fails: logged, the next node
                   /\ pc' = pc
                   /\ sched' = [sched EXCEPT !.ni = @ + 1, !.listings = listed(FALSE)]
                \/ /\ ~cancelled
                   /\ IF failedPods = <<>>
                      THEN /\ pc' = pc
                           /\ sched' = [sched EXCEPT !.ni = @ + 1, !.listings = listed(TRUE)]
                      ELSE /\ pc' = "rfp_pod"
                           /\ sched' = [sched EXCEPT !.pods = failedPods, !.pi = 1,
                                                     !.listings = listed(TRUE)]
    /\ UNCHANGED <<config, cluster, cancelled, gatekeeper, resetDirty, harness>>

\* After a pod of the node: the next pod, or the next node.
RFP_Advance ==
    IF sched.pi < Len(sched.pods)
    THEN /\ pc' = pc
         /\ sched' = [sched EXCEPT !.pi = @ + 1]
    ELSE /\ pc' = "rfp_node"
         /\ sched' = [sched EXCEPT !.ni = @ + 1, !.pods = <<>>, !.pi = 0]

\* One iteration of the loop over a node's failed pods.
RFP_Pod ==
    /\ pc = "rfp_pod"
    /\ LET pod == sched.pods[sched.pi] IN
       IF ~RFP_canEvictPod(pod).ok \/ ~RFP_shouldEvictPod(pod)
       THEN UNCHANGED gatekeeper
       ELSE \E out \in EvictPodOutcomes(stats, pod, RFP_reason(pod)) :
                Attempt("RemoveFailedPods", pod, RFP_reason(pod), out)
    /\ RFP_Advance
    /\ UNCHANGED <<config, cluster, cancelled, resetDirty, harness>>

----------------------------------------------------------------------------
(* pkg/utils: node utilization *)

IsLive(pod) == pod.Phase # "Failed" /\ pod.Phase # "Succeeded"

\* The sum of a sequence of numbers.
RECURSIVE SumNums(_)
SumNums(s) == IF s = <<>> THEN 0 ELSE Head(s) + SumNums(Tail(s))

PodCPU(pod) == SumNums([i \in 1..Len(pod.Containers) |-> pod.Containers[i].CPU])

PodMemory(pod) == SumNums([i \in 1..Len(pod.Containers) |-> pod.Containers[i].Memory])

Percent(used, allocatable) == IF allocatable # 0 THEN (used * 100) \div allocatable ELSE 0

CalculateNodeUtilization(node, pods) ==
    LET live == SelectSeq(pods, IsLive)
        cpuRequests == SumNums([i \in 1..Len(live) |-> PodCPU(live[i])])
        memoryRequests == SumNums([i \in 1..Len(live) |-> PodMemory(live[i])])
    IN  [NodeName |-> node.Name,
         CPUUsage |-> cpuRequests,
         MemoryUsage |-> memoryRequests,
         PodsCount |-> Len(live),
         CPUPercent |-> Percent(cpuRequests, node.Allocatable.CPU),
         MemoryPercent |-> Percent(memoryRequests, node.Allocatable.Memory),
         PodsPercent |-> Percent(Len(live), node.Allocatable.Pods)]

IsNodeUnderUtilized(u, thresholds) ==
    /\ u.CPUPercent < thresholds.CPU
    /\ u.MemoryPercent < thresholds.Memory
    /\ u.PodsPercent < thresholds.Pods

IsNodeOverUtilized(u, thresholds) ==
    \/ u.CPUPercent > thresholds.CPU
    \/ u.MemoryPercent > thresholds.Memory
    \/ u.PodsPercent > thresholds.Pods

\* The orders in which a Go map with key set S can be iterated.
Perms(S) ==
    {f \in [1..Cardinality(S) -> S] : \A i, j \in DOMAIN f : i # j => f[i] # f[j]}

----------------------------------------------------------------------------
(* LowNodeUtilizationStrategy *)

LNUConfig == config.Strategies["LowNodeUtilization"][1]

\* calculateNodeUtilizations, when every listing succeeds: by node name.
calculateNodeUtilizations(nodes) ==
    {CalculateNodeUtilization(nodes[i], ListPodsOnNode(nodes[i].Name)) : i \in 1..Len(nodes)}

\* categorizeNodes: the two sets; the map is iterated in any order.
lowUtilizationNodes(utilizations) ==
    {u \in utilizations : IsNodeUnderUtilized(u, LNUConfig.Thresholds)}

\* A categorizeNodes that tests every node against the target thresholds.
overUtilizationNodesUntested(utilizations) ==
    {u \in utilizations : IsNodeOverUtilized(u, LNUConfig.TargetThresholds)}

overUtilizationNodes(utilizations) ==
    {u \in utilizations :
        /\ ~IsNodeUnderUtilized(u, LNUConfig.Thresholds)
        /\ IsNodeOverUtilized(u, LNUConfig.TargetThresholds)}

\* The gatekeeper's check as the strategy calls it.
LNU_canEvictPod(pod) == CanEvictPod(pod)

\* A getEvictablePodsOnNode that keeps the pods that have ended.
LNU_EvictableAnyPhase(pod) == LNU_canEvictPod(pod).ok

LNU_Evictable(pod) == IsLive(pod) /\ LNU_canEvictPod(pod).ok

getEvictablePodsOnNode(nodeName) == SelectSeq(ListPodsOnNode(nodeName), LNU_Evictable)

IsLowPriority(pod) ==
    \/ pod.PriorityClassName = ""
    \/ pod.Priority = <<>>
    \/ pod.Priority[1] <= 0

IsNormalPriority(pod) == ~IsLowPriority(pod)

\* A sortPodsByPriority that returns the pods as listed.
sortPodsByPriorityAsListed(pods) == pods

sortPodsByPriority(pods) == SelectSeq(pods, IsLowPriority) \o SelectSeq(pods, IsNormalPriority)

\* A calculateMaxEvictions without the bounds 1 and 5.
calculateMaxEvictionsUnbounded(u) ==
    LET cpuExcess == Max2(0, u.CPUPercent - LNUConfig.TargetThresholds.CPU)
        memoryExcess == Max2(0, u.MemoryPercent - LNUConfig.TargetThresholds.Memory)
        podsExcess == Max2(0, u.PodsPercent - LNUConfig.TargetThresholds.Pods)
    IN  Max2(cpuExcess, Max2(memoryExcess, podsExcess)) \div 10

calculateMaxEvictions(u) ==
    LET cpuExcess == Max2(0, u.CPUPercent - LNUConfig.TargetThresholds.CPU)
        memoryExcess == Max2(0, u.MemoryPercent - LNUConfig.TargetThresholds.Memory)
        podsExcess == Max2(0, u.PodsPercent - LNUConfig.TargetThresholds.Pods)
        maxExcess == Max2(cpuExcess, Max2(memoryExcess, podsExcess))
    IN  Max2(1, Min2(5, maxExcess \div 10))

LNU_reason(u) ==
    "Node over-utilization balancing - CPU=" \o ToString(u.CPUPercent)
        \o "%, Memory=" \o ToString(u.MemoryPercent)
        \o "%, Pods=" \o ToString(u.PodsPercent) \o "%"

\* An Execute that goes on whenever a node is over-utilized.
LNU_SkipsWithoutOver(low, over) == over = {}

\* Execute's two tests after the classification: it returns when they hold.
LNU_Skips(low, over) ==
    \/ Cardinality(low) < LNUConfig.NumberOfNodes
    \/ over = {}

\* Execute up to the call of evictPodsFromOverUtilizedNodes.
LNU_Begin ==
    /\ pc = "lnu_begin"
    /\ LET readyNodes == FilterReadySchedulableNodes(sched.nodes) IN
       IF Len(readyNodes) < 2
       THEN StrategyReturn
       ELSE \/ \E k \in 1..Len(readyNodes) :  \* the listing of node k fails
                    /\ ListingCanFail
                    /\ cancelled => k = 1
                    /\ ExecuteReturns(
                        "failed to calculate node utilizations: failed to get pods on node "
                            \o readyNodes[k].Name,
                        sched.listings \o ListingsOf("LowNodeUtilization", readyNodes, k - 1)
                            \o <<Listing("LowNodeUtilization", readyNodes[k].Name, FALSE)>>)
            \/ LET utilizations == calculateNodeUtilizations(readyNodes)
                   low == lowUtilizationNodes(utilizations)
                   over == overUtilizationNodes(utilizations)
                   listings == sched.listings
                       \o ListingsOf("LowNodeUtilization", readyNodes, Len(readyNodes))
               IN  /\ ~cancelled
                   /\ IF LNU_Skips(low, over)
                      THEN ExecuteReturns("nil", listings)
                      ELSE \E order \in Perms(over) :
                           /\ pc' = "lnu_node"
                           /\ sched' = [sched EXCEPT !.low = low, !.over = order,
                                                     !.ni = 1, !.listings = listings]
    /\ UNCHANGED <<config, cluster, cancelled, gatekeeper, resetDirty, harness>>

\* evictPodsFromOverUtilizedNodes: the loop over the over-utilized nodes.
LNU_Node ==
    /\ pc = "lnu_node"
    /\ IF sched.ni > Len(sched.over)
       THEN StrategyReturn
       ELSE LET nodeUtil == sched.over[sched.ni]
                sortedPods == sortPodsByPriority(getEvictablePodsOnNode(nodeUtil.NodeName))
                listed(ok) ==
                    Append(sched.listings, Listing("LowNodeUtilization", nodeUtil.NodeName, ok))
            IN  \/ /\ ListingCanFail  \* the listing fails: logged, the next node
                   /\ pc' = pc
                   /\ sched' = [sched EXCEPT !.ni = @ + 1, !.listings = listed(FALSE)]
                \/ /\ ~cancelled
                   /\ IF sortedPods = <<>>
                      THEN /\ pc' = pc
                           /\ sched' = [sched EXCEPT !.ni = @ + 1, !.listings = listed(TRUE)]
                      ELSE /\ pc' = "lnu_pod"
                           /\ sched' = [sched EXCEPT
                                    !.pods = sortedPods, !.pi = 1, !.evicted = 0,
                                    !.maxEvictions = calculateMaxEvictions(nodeUtil),
                                    !.listings = listed(TRUE)]
    /\ UNCHANGED <<config, cluster, cancelled, gatekeeper, resetDirty, harness>>

LNU_NextNode ==
    /\ pc' = "lnu_node"
    /\ sched' = [sched EXCEPT !.ni = @ + 1, !.pods = <<>>, !.pi = 0,
                              !.evicted = 0, !.maxEvictions = 0]

\* After a pod of the node: the next pod, or the next node. ok: it was evicted.
LNU_Advance(ok) ==
    IF sched.pi < Len(sched.pods)
    THEN /\ pc' = pc
         /\ sched' = [sched EXCEPT !.pi = @ + 1,
                                   !.evicted = IF ok THEN @ + 1 ELSE @]
    ELSE LNU_NextNode

\* One iteration of the loop over an over-utilized node's sorted pods.
LNU_Pod ==
    /\ pc = "lnu_pod"
    /\ LET pod == sched.pods[sched.pi]
           reason == LNU_reason(sched.over[sched.ni])
       IN  IF sched.evicted >= sched.maxEvictions
           THEN LNU_NextNode /\ UNCHANGED gatekeeper
           ELSE IF ~LNU_canEvictPod(pod).ok
           THEN LNU_Advance(FALSE) /\ UNCHANGED gatekeeper
           ELSE \E out \in EvictPodOutcomes(stats, pod, reason) :
                /\ Attempt("LowNodeUtilization", pod, reason, out)
                /\ LNU_Advance(out.err = Nil)
    /\ UNCHANGED <<config, cluster, cancelled, resetDirty, harness>>

----------------------------------------------------------------------------
(* pkg/utils: the pod signature *)

\* The image names of the model, in the order sort.Strings puts them.
ImageOrder == <<"busybox", "nginx", "redis">>

ImageRank(image) == CHOOSE i \in 1..Len(ImageOrder) : ImageOrder[i] = image

RECURSIVE InsertImage(_, _)
InsertImage(image, sorted) ==
    IF sorted = <<>> THEN <<image>>
    ELSE IF ImageRank(image) <= ImageRank(Head(sorted)) THEN <<image>> \o sorted
    ELSE <<Head(sorted)>> \o InsertImage(image, Tail(sorted))

RECURSIVE SortStrings(_)
SortStrings(images) ==
    IF images = <<>> THEN <<>> ELSE InsertImage(Head(images), SortStrings(Tail(images)))

\* strings.Join
RECURSIVE Join(_, _)
Join(parts, sep) ==
    IF parts = <<>> THEN ""
    ELSE IF Len(parts) = 1 THEN parts[1]
    ELSE parts[1] \o sep \o Join(Tail(parts), sep)

GetPodImagesAsListed(pod) == [i \in 1..Len(pod.Containers) |-> pod.Containers[i].Image]

GetPodImages(pod) == SortStrings([i \in 1..Len(pod.Containers) |-> pod.Containers[i].Image])

GeneratePodSignature(pod) ==
    Join(<<pod.Namespace>>
            \o [i \in 1..Len(pod.OwnerReferences) |->
                    pod.OwnerReferences[i].Kind \o ":" \o pod.OwnerReferences[i].Name]
            \o <<Join(GetPodImages(pod), ",")>>,
         "|")

----------------------------------------------------------------------------
(* RemoveDuplicatesStrategy *)

RDConfig == config.Strategies["RemoveDuplicates"][1]

RD_shouldProcessNamespace(namespace) ==
    IF Len(RDConfig.IncludedNamespaces) > 0
        THEN Contains(RDConfig.IncludedNamespaces, namespace)
    ELSE IF Len(RDConfig.ExcludedNamespaces) > 0
        THEN ~Contains(RDConfig.ExcludedNamespaces, namespace)
    ELSE TRUE

RD_shouldProcessPod(pod) ==
    /\ Len(pod.OwnerReferences) # 0
    /\ ~(/\ Len(RDConfig.ExcludeOwnerKinds) > 0
         /\ \E i \in 1..Len(pod.OwnerReferences) :
                Contains(RDConfig.ExcludeOwnerKinds, pod.OwnerReferences[i].Kind))

RD_ProcessableAnyPhase(pod) ==
    RD_shouldProcessNamespace(pod.Namespace) /\ RD_shouldProcessPod(pod)

RD_Processable(pod) ==
    /\ pod.Phase = "Running"
    /\ RD_shouldProcessNamespace(pod.Namespace)
    /\ RD_shouldProcessPod(pod)

getProcessablePods(nodeName) == SelectSeq(ListPodsOnNode(nodeName), RD_Processable)

\* groupPodsBySignature, when every listing succeeds: podGroups[signature][nodeName].
podGroup(signature, nodeName) ==
    LET Same(pod) == GeneratePodSignature(pod) = signature
    IN  SelectSeq(getProcessablePods(nodeName), Same)

\* The keys of podGroups.
podSignatures ==
    {GeneratePodSignature(getProcessablePods(sched.nodes[i].Name)[j]) :
        <<i, j>> \in {<<i, j>> \in (1..Len(sched.nodes)) \X (1..Len(cluster.pods)) :
                        j <= Len(getProcessablePods(sched.nodes[i].Name))}}

\* The keys of podGroups[signature].
nodesOfSignature(signature) ==
    {sched.nodes[i].Name : i \in {i \in 1..Len(sched.nodes) :
                                    podGroup(signature, sched.nodes[i].Name) # <<>>}}

\* findDuplicateNodes: the slices it can return, the map being iterated in any order.
findDuplicateNodes(signature) ==
    LET nodePodsMap == nodesOfSignature(signature)
        several == {n \in nodePodsMap : Len(podGroup(signature, n)) > 1}
    IN  IF Cardinality(nodePodsMap) < 2 THEN {<<>>}
        ELSE IF several # {} THEN Perms(several)
        ELSE {<<n>> : n \in {n \in nodePodsMap :
                \A m \in nodePodsMap :
                    Len(podGroup(signature, m)) <= Len(podGroup(signature, n))}}

\* sortPodsByAge: the bubble sort's inner loop, j from 1 to last.
RECURSIVE BubbleInner(_, _, _)
BubbleInner(s, j, lastJ) ==
    IF j > lastJ THEN s
    ELSE BubbleInner(
            IF s[j].CreationTimestamp > s[j + 1].CreationTimestamp
            THEN [s EXCEPT ![j] = s[j + 1], ![j + 1] = s[j]]
            ELSE s,
            j + 1, lastJ)

RECURSIVE BubbleOuter(_, _)
BubbleOuter(s, i) ==
    IF i >= Len(s) - 1 THEN s ELSE BubbleOuter(BubbleInner(s, 1, Len(s) - i - 1), i + 1)

sortPodsByAgeAsListed(pods) == pods

sortPodsByAge(pods) == BubbleOuter(pods, 0)


RD_canEvictPod(pod) == CanEvictPod(pod)

RD_reason(nodeName) == "Duplicate pod removal - keeping oldest pod on node " \o nodeName

\* The pods Execute passes to the eviction check for one duplicate node: all but
\* the oldest, when the node holds more than one.
RD_workOfNode(signature, nodeName) ==
    LET pods == podGroup(signature, nodeName)
        sortedPods == sortPodsByAge(pods)
    IN  IF Len(pods) <= 1 THEN <<>>
        ELSE [i \in 1..(Len(pods) - 1) |-> [pod |-> sortedPods[i + 1], node |-> nodeName]]

RECURSIVE RD_workOfNodes(_, _)
RD_workOfNodes(signature, duplicateNodes) ==
    IF duplicateNodes = <<>> THEN <<>>
    ELSE RD_workOfNode(signature, Head(duplicateNodes))
            \o RD_workOfNodes(signature, Tail(duplicateNodes))

RECURSIVE RD_workOfSignatures(_, _)
RD_workOfSignatures(signatures, duplicateNodesOf) ==
    IF signatures = <<>> THEN <<>>
    ELSE RD_workOfNodes(Head(signatures), duplicateNodesOf[Head(signatures)])
            \o RD_workOfSignatures(Tail(signatures), duplicateNodesOf)

\* Every sequence of pods Execute can go through: the signatures and the
\* duplicate nodes of each come in the iteration order of Go maps.
RD_works ==
    LET sigs == podSignatures
        slices == UNION {findDuplicateNodes(sig) : sig \in sigs}
        choices == {f \in [sigs -> slices] : \A sig \in sigs : f[sig] \in findDuplicateNodes(sig)}
    IN  {RD_workOfSignatures(order, f) : order \in Perms(sigs), f \in choices}

\* Execute: group the pods of every node by signature.
RD_Begin ==
    /\ pc = "rd_begin"
    /\ \/ \E k \in 1..Len(sched.nodes) :  \* the listing of node k fails
            /\ ListingCanFail
            /\ cancelled => k = 1
            /\ ExecuteReturns(
                "failed to group pods by signature: failed to get pods on node "
                    \o sched.nodes[k].Name,
                sched.listings \o ListingsOf("RemoveDuplicates", sched.nodes, k - 1)
                    \o <<Listing("RemoveDuplicates", sched.nodes[k].Name, FALSE)>>)
       \/ \E work \in RD_works :
            LET listings == sched.listings
                    \o ListingsOf("RemoveDuplicates", sched.nodes, Len(sched.nodes))
            IN  /\ ~cancelled
                /\ IF work = <<>>
                   THEN ExecuteReturns("nil", listings)
                   ELSE /\ pc' = "rd_pod"
                        /\ sched' = [sched EXCEPT !.work = work, !.pi = 1,
                                                  !.listings = listings]
    /\ UNCHANGED <<config, cluster, cancelled, gatekeeper, resetDirty, harness>>

RD_Advance ==
    IF sched.pi < Len(sched.work)
    THEN /\ pc' = pc
         /\ sched' = [sched EXCEPT !.pi = @ + 1]
    ELSE StrategyReturn

\* One iteration of the loop over a duplicate node's pods, the oldest excepted.
RD_Pod ==
    /\ pc = "rd_pod"
    /\ LET pod == sched.work[sched.pi].pod
           reason == RD_reason(sched.work[sched.pi].node)
       IN  IF ~RD_canEvictPod(pod).ok
           THEN UNCHANGED gatekeeper
           ELSE \E out \in EvictPodOutcomes(stats, pod, reason) :
                    Attempt("RemoveDuplicates", pod, reason, out)
    /\ RD_Advance
    /\ UNCHANGED <<config, cluster, cancelled, resetDirty, harness>>


----------------------------------------------------------------------------
(* The PodEvictor interface called directly: any sequence of EvictPod,        *)
(* CanEvictPod, GetEvictionStats and ResetStats, on any pod                   *)

\* A call on the PodEvictor interface: the method, its arguments, and what it
\* returned: EvictPod's error (api: it called the platform eviction API),
\* CanEvictPod's verdict, GetEvictionStats' copy (shared: its maps are the
\* evictor's own map objects).
NoCall == [op |-> "none", pod |-> BasePod, reason |-> "", err |-> Nil, api |-> FALSE,
           verdict |-> Verdict(TRUE, ""), got |-> ZeroStats, shared |-> FALSE,
           signature |-> ""]

\* The pods EvictPod is called with: in one of two namespaces, bound to one of two
\* nodes or to none.
EvictorPods ==
    {[BasePod EXCEPT !.Namespace = ns, !.NodeName = node] :
        ns \in {"default", "prod"}, node \in {"", "n1", "n2"}}

EvictorReasons == {"Failed pod cleanup - Phase: Failed", RD_reason("n1")}

\* The pods CanEvictPod is called with: an evictable one and one per rule.
SafetyPods ==
    {BasePod,
     [BasePod EXCEPT !.PriorityClassName = "system-node-critical"],
     [BasePod EXCEPT !.OwnerReferences = <<Owner("DaemonSet", "agent")>>],
     [BasePod EXCEPT !.Annotations = (StaticAnnotation :> "file")],
     [BasePod EXCEPT !.OwnerReferences = <<>>],
     [BasePod EXCEPT !.DeletionTimestamp = <<Now>>],
     [BasePod EXCEPT !.Volumes = <<Volume("hostPath")>>]}

\* EvictPod(ctx, pod, reason), the whole call: it holds the mutex throughout.
EvictPodCall(pods, reasons) ==
    \E pod \in pods, reason \in reasons :
    \E out \in EvictPodOutcomes(stats, pod, reason) :
        /\ out.stats.TotalEvicted <= MaxEvictions
        /\ out.stats.FailedEvictions <= MaxFailures
        /\ stats' = out.stats
        /\ last' = [NoCall EXCEPT !.op = "EvictPod", !.pod = pod, !.reason = reason,
                                  !.err = out.err, !.api = out.api]
        /\ UNCHANGED <<file, ticker, config, cluster, pc, cancelled, sched, attempts, apiCalls,
                       resetDirty, mu, memo, callers>>

Call_EvictPod == EvictPodCall(EvictorPods, EvictorReasons)

\* The two counters of the statistics, the maps left out.
CountersOf(st) ==
    [ZeroStats EXCEPT !.TotalEvicted = st.TotalEvicted,
                      !.FailedEvictions = st.FailedEvictions]

\* CanEvictPod(pod). memo keeps the first such call of the behaviour, with the
\* counters it was made under.
Call_CanEvictPod ==
    \E pod \in SafetyPods :
        /\ last' = [NoCall EXCEPT !.op = "CanEvictPod", !.pod = pod,
                                  !.verdict = CanEvictPod(pod)]
        /\ memo' = IF memo.op = "none" THEN [last' EXCEPT !.got = CountersOf(stats)]
                   ELSE memo
        /\ UNCHANGED <<file, ticker, config, cluster, pc, cancelled, sched, gatekeeper, resetDirty,
                       mu, callers>>

\* GetEvictionStats()
Call_GetEvictionStats ==
    /\ last' = [NoCall EXCEPT !.op = "GetEvictionStats", !.got = GetEvictionStats]
    /\ UNCHANGED <<file, ticker, config, cluster, pc, cancelled, sched, gatekeeper, resetDirty,
                   mu, memo, callers>>

\* ResetStats()
Call_ResetStats ==
    /\ ResetStats
    /\ last' = [NoCall EXCEPT !.op = "ResetStats"]
    /\ UNCHANGED <<file, ticker, config, cluster, pc, cancelled, sched, attempts, apiCalls,
                   mu, memo, callers>>

----------------------------------------------------------------------------
(* The clusters and configurations the control loop is run on *)

NodeNames == {"n1", "n2"}

\* A node with room for 4 pods, 1000 millicores and 1000 bytes.
Node(name, ready) ==
    [Name |-> name,
     Conditions |-> <<Condition("MemoryPressure", "False"),
                      Condition("Ready", IF ready THEN "True" ELSE "False")>>,
     Unschedulable |-> FALSE,
     Labels |-> ("zone" :> "a"),
     Allocatable |-> [CPU |-> 1000, Memory |-> 1000, Pods |-> 4]]

\* An evictable Failed pod, old enough to be cleaned up.
FailedPod == [BasePod EXCEPT !.Phase = "Failed"]

\* The kinds of pod of a snapshot: what the strategies and the gatekeeper tell
\* apart. A Failed pod; a Failed DaemonSet pod of kube-system; a Running pod; a
\* Running pod with an emptyDir volume.
PodKinds ==
    {[BasePod EXCEPT !.Phase = "Failed"],
     [BasePod EXCEPT !.Phase = "Failed", !.Namespace = "kube-system",
                     !.OwnerReferences = <<Owner("DaemonSet", "agent")>>],
     BasePod,
     [BasePod EXCEPT !.Volumes = <<Volume("emptyDir")>>]}

\* Pods p1.., pod i of kind kinds[i] on node placement[i].
PodsOf(kinds, placement) ==
    [i \in DOMAIN kinds |->
        [kinds[i] EXCEPT !.Name = "p" \o ToString(i), !.NodeName = placement[i]]]

\* Where the pods are: the first on n1, the others together on n1 or on n2.
Placements ==
    {f \in [1..NumPods -> NodeNames] : f[1] = "n1" /\ \A i \in 2..NumPods : f[i] = f[NumPods]}

\* The snapshots: two ready nodes and NumPods pods, the first two of any kind and
\* the others evictable and Running or Failed, each on a node; and one snapshot
\* whose second node is not ready.
Clusters ==
    {[nodes |-> <<Node("n1", TRUE), Node("n2", TRUE)>>, pods |-> PodsOf(kinds, placement)] :
        kinds \in {f \in [1..NumPods -> PodKinds] :
                      \A i \in 3..NumPods : f[i] \in {BasePod, FailedPod}},
        placement \in Placements}
    \cup {[nodes |-> <<Node("n1", TRUE), Node("n2", FALSE)>>,
           pods |-> PodsOf([i \in 1..NumPods |-> BasePod], [i \in 1..NumPods |-> "n1"])]}

NoThresholds == [CPU |-> 0, Memory |-> 0, Pods |-> 0]

RFPConfigs ==
    {[Enabled |-> TRUE, MinPodLifetimeSeconds |-> 300, ExcludeOwnerKinds |-> <<>>,
      IncludedNamespaces |-> <<>>, ExcludedNamespaces |-> <<>>]}

LNUConfigs ==
    {[Enabled |-> TRUE, NumberOfNodes |-> 1,
      Thresholds |-> [CPU |-> 20, Memory |-> 20, Pods |-> 20],
      TargetThresholds |-> [CPU |-> 40, Memory |-> 40, Pods |-> 40]]}

RDConfigs ==
    {[Enabled |-> TRUE, ExcludeOwnerKinds |-> <<>>,
      IncludedNamespaces |-> <<>>, ExcludedNamespaces |-> <<>>]}

\* The limits of a configuration: each is 0 (no limit), 1 or MaxLimit.
LimitValues == {0, 1, MaxLimit}

LimitChoices ==
    [MaxPodsToEvictPerNode : LimitValues,
     MaxPodsToEvictPerNamespace : LimitValues,
     MaxPodsToEvictTotal : LimitValues]

\* The limits the control loop is run with: none, or one per node and namespace
\* and MaxLimit in total.
CycleLimits ==
    {l \in LimitChoices :
        /\ l.MaxPodsToEvictPerNode = l.MaxPodsToEvictPerNamespace
        /\ l.MaxPodsToEvictPerNode \in {0, 1}
        /\ l.MaxPodsToEvictTotal = (IF l.MaxPodsToEvictPerNode = 0 THEN 0 ELSE MaxLimit)}

\* The intervals of a configuration, in seconds: one-shot, or the default 5 minutes.
Intervals == {0, 300}

Configs ==
    {[DryRun |-> dryRun, Interval |-> interval, NodeSelector |-> NoAnnotations,
      Limits |-> limits,
      Strategies |-> [RemoveFailedPods |-> <<rfp>>, LowNodeUtilization |-> <<lnu>>,
                      RemoveDuplicates |-> <<rd>>]] :
        dryRun \in BOOLEAN, interval \in Intervals, limits \in CycleLimits,
        rfp \in RFPConfigs, lnu \in LNUConfigs, rd \in RDConfigs}

\* NewScheduler, NewDefaultPodEvictor: everything but the configuration and the cluster.
InitProgram ==
    /\ file = <<>>
    /\ ticker = 0
    /\ stats = ZeroStats
    /\ mu = [writer |-> 0, readers |-> {}]
    /\ pc = "Run"
    /\ cancelled = FALSE
    /\ sched = NoLocals
    /\ attempts = <<>>
    /\ apiCalls = <<>>
    /\ resetDirty = FALSE
    /\ last = NoCall
    /\ memo = NoCall
    /\ callers = <<>>

Init ==
    /\ config \in Configs
    /\ cluster \in Clusters
    /\ InitProgram

Next ==
    \/ Run
    \/ RunOnce_Reset
    \/ RunOnce_GetNodes
    \/ RunOnce_Strategy
    \/ RFP_Node
    \/ RFP_Pod
    \/ LNU_Begin
    \/ LNU_Node
    \/ LNU_Pod
    \/ RD_Begin
    \/ RD_Pod
    \/ Tick
    \/ CtxDone
    \/ Cancel

Spec == Init /\ [][Next]_vars

\* The configurations the gatekeeper is called under: dry-run or not, every limit
\* from 0 to MaxLimit.
EvictorConfigs == {c \in Configs : c.Interval = 0}

InitEvictor ==
    /\ config \in {[c EXCEPT !.Limits = limits] : c \in EvictorConfigs, limits \in LimitChoices}
    /\ cluster = [nodes |-> <<>>, pods |-> <<>>]
    /\ InitProgram

NextEvictor ==
    \/ Call_EvictPod
    \/ Call_GetEvictionStats
    \/ Call_ResetStats

SpecEvictor == InitEvictor /\ [][NextEvictor]_vars


----------------------------------------------------------------------------
(* Properties of the gatekeeper called directly (SpecEvictor)                *)

Limits == config.Limits

AllLimitsPositive ==
    /\ Limits.MaxPodsToEvictTotal > 0
    /\ Limits.MaxPodsToEvictPerNode > 0
    /\ Limits.MaxPodsToEvictPerNamespace > 0

WithinLimits(st) ==
    /\ st.TotalEvicted <= Limits.MaxPodsToEvictTotal
    /\ \A k \in DOMAIN st.EvictedByNode :
           st.EvictedByNode[k] <= Limits.MaxPodsToEvictPerNode
    /\ \A k \in DOMAIN st.EvictedByNamespace :
           st.EvictedByNamespace[k] <= Limits.MaxPodsToEvictPerNamespace

\* C1: with each limit configured above zero, in every reachable state of the
\* gatekeeper the total count is at most the total limit, and the count of every
\* node key and of every namespace key is at most its limit, whatever EvictPod
\* calls were made.
C1_QuotaInvariant == AllLimitsPositive => WithinLimits(stats)

\* All three limits are positive, the total limit is exhausted, some node and
\* some namespace are at their limit, and the last EvictPod was turned away.
C1_Witness ==
    /\ AllLimitsPositive
    /\ stats.TotalEvicted = Limits.MaxPodsToEvictTotal
    /\ \E k \in DOMAIN stats.EvictedByNode :
           stats.EvictedByNode[k] = Limits.MaxPodsToEvictPerNode
    /\ \E k \in DOMAIN stats.EvictedByNamespace :
           stats.EvictedByNamespace[k] = Limits.MaxPodsToEvictPerNamespace
    /\ last.op = "EvictPod"
    /\ IsQuotaError(last.err)

\* The step is an EvictPod call (last' describes the call the step made).
EvictPodStep == last'.op = "EvictPod"

\* The four success counters of the call's pod and reason each went up by one;
\* the per-node one is required only as byNodeToo says.
SuccessCounted(byNodeToo) ==
    LET pod == last'.pod IN
    /\ stats'.TotalEvicted = stats.TotalEvicted + 1
    /\ byNodeToo =>
           Get(stats'.EvictedByNode, pod.NodeName) = Get(stats.EvictedByNode, pod.NodeName) + 1
    /\ Get(stats'.EvictedByNamespace, pod.Namespace)
           = Get(stats.EvictedByNamespace, pod.Namespace) + 1
    /\ Get(stats'.EvictedByReason, last'.reason)
           = Get(stats.EvictedByReason, last'.reason) + 1

\* No counter of any other key moved.
OtherKeysUnchanged ==
    LET pod == last'.pod IN
    /\ \A k \in (DOMAIN stats.EvictedByNode \cup DOMAIN stats'.EvictedByNode) \ {pod.NodeName} :
           Get(stats'.EvictedByNode, k) = Get(stats.EvictedByNode, k)
    /\ \A k \in (DOMAIN stats.EvictedByNamespace \cup DOMAIN stats'.EvictedByNamespace)
                   \ {pod.Namespace} :
           Get(stats'.EvictedByNamespace, k) = Get(stats.EvictedByNamespace, k)
    /\ \A k \in (DOMAIN stats.EvictedByReason \cup DOMAIN stats'.EvictedByReason)
                   \ {last'.reason} :
           Get(stats'.EvictedByReason, k) = Get(stats.EvictedByReason, k)

\* A limit is reached for the pod, in the words of the quota rule: the total count
\* has reached a positive total limit, or the count of the pod's node a positive
\* per-node limit, or the count of the pod's namespace a positive per-namespace limit.
LimitReached(st, pod) ==
    \/ Limits.MaxPodsToEvictTotal > 0 /\ st.TotalEvicted >= Limits.MaxPodsToEvictTotal
    \/ /\ Limits.MaxPodsToEvictPerNode > 0
       /\ pod.NodeName # ""
       /\ Get(st.EvictedByNode, pod.NodeName) >= Limits.MaxPodsToEvictPerNode
    \/ /\ Limits.MaxPodsToEvictPerNamespace > 0
       /\ Get(st.EvictedByNamespace, pod.Namespace) >= Limits.MaxPodsToEvictPerNamespace

\* C3, as stated: in dry-run no EvictPod calls the platform eviction API, and every
\* EvictPod that passes the quota check returns no error and adds one to each of
\* totalEvicted, byNode, byNamespace and byReason.
C3_AsStated ==
    [][(config.DryRun /\ EvictPodStep) =>
          /\ ~last'.api
          /\ ~LimitReached(stats, last'.pod) =>
                 /\ last'.err = Nil
                 /\ SuccessCounted(TRUE)
                 /\ stats'.FailedEvictions = stats.FailedEvictions]_vars

\* C3: in dry-run no EvictPod calls the platform eviction API, and every EvictPod
\* that passes the quota check returns no error and adds one to totalEvicted, to
\* byNamespace and to byReason, and to byNode when the pod's node name is not empty;
\* for an empty node name byNode is left as it was. No other counter moves.
C3_DryRun ==
    [][(config.DryRun /\ EvictPodStep) =>
          /\ ~last'.api
          /\ ~LimitReached(stats, last'.pod) =>
                 /\ last'.err = Nil
                 /\ SuccessCounted(last'.pod.NodeName # "")
                 /\ last'.pod.NodeName = "" => stats'.EvictedByNode = stats.EvictedByNode
                 /\ OtherKeysUnchanged
                 /\ stats'.FailedEvictions = stats.FailedEvictions]_vars

\* In dry-run, after an eviction of a pod bound to a node, an EvictPod of a pod
\* with no node name was just counted: byNode holds one eviction fewer than the
\* total, and nothing reached the platform.
C3_Witness ==
    /\ config.DryRun
    /\ last.op = "EvictPod"
    /\ last.err = Nil
    /\ ~last.api
    /\ last.pod.NodeName = ""
    /\ stats.TotalEvicted = 2
    /\ MapSum(stats.EvictedByNode) = 1

\* C5: an EvictPod called when a limit is reached returns the quota error, leaves
\* every counter and map as it was (failedEvictions included) and calls no API; and
\* an EvictPod returns a quota error only when a limit is reached.
C5_QuotaRejection ==
    [][EvictPodStep =>
          /\ LimitReached(stats, last'.pod) =>
                 /\ IsQuotaError(last'.err)
                 /\ stats' = stats
                 /\ ~last'.api
          /\ IsQuotaError(last'.err) => LimitReached(stats, last'.pod)]_vars

\* Outside dry-run, an EvictPod was rejected for the per-node limit after evictions
\* and a failure had been counted.
C5_Witness ==
    /\ ~config.DryRun
    /\ last.op = "EvictPod"
    /\ last.err.kind = "node"
    /\ ~last.api
    /\ stats.TotalEvicted >= 1
    /\ stats.FailedEvictions >= 1

\* C6, as stated: outside dry-run, when the API call fails EvictPod returns an
\* error, failedEvictions goes up by one and the four success counters stay; when
\* it succeeds failedEvictions stays and totalEvicted, byNode, byNamespace and
\* byReason each go up by one.
C6_AsStated ==
    [][(~config.DryRun /\ EvictPodStep /\ last'.api) =>
          /\ last'.err # Nil =>
                 stats' = [stats EXCEPT !.FailedEvictions = @ + 1]
          /\ last'.err = Nil =>
                 /\ stats'.FailedEvictions = stats.FailedEvictions
                 /\ SuccessCounted(TRUE)]_vars

\* C6: outside dry-run, when the API call fails EvictPod returns an error,
\* failedEvictions goes up by one and nothing else changes; when it succeeds
\* failedEvictions stays, totalEvicted, byNamespace and byReason each go up by one,
\* and byNode goes up by one when the pod's node name is not empty and stays as it
\* was when it is empty.
C6_ApiOutcome ==
    [][(~config.DryRun /\ EvictPodStep /\ last'.api) =>
          /\ last'.err # Nil =>
                 stats' = [stats EXCEPT !.FailedEvictions = @ + 1]
          /\ last'.err = Nil =>
                 /\ stats'.FailedEvictions = stats.FailedEvictions
                 /\ SuccessCounted(last'.pod.NodeName # "")
                 /\ last'.pod.NodeName = "" => stats'.EvictedByNode = stats.EvictedByNode
                 /\ OtherKeysUnchanged]_vars

\* Outside dry-run, the API has just refused an eviction after having accepted
\* another.
C6_Witness ==
    /\ ~config.DryRun
    /\ last.op = "EvictPod"
    /\ last.api
    /\ last.err = ApiError
    /\ stats.FailedEvictions = 1
    /\ stats.TotalEvicted >= 1

----------------------------------------------------------------------------
(* One cycle of the three strategies over pods of every safety category       *)
(* (SpecSafety)                                                               *)

\* What makes a pod unsafe to evict, one variation of the base pod per rule, and
\* the base pod itself.
SafetyVariations ==
    {BasePod,
     [BasePod EXCEPT !.PriorityClassName = "system-cluster-critical"],
     [BasePod EXCEPT !.Namespace = "kube-public"],
     [BasePod EXCEPT !.OwnerReferences = <<Owner("DaemonSet", "agent")>>],
     [BasePod EXCEPT !.Annotations = (StaticAnnotation :> "file")],
     [BasePod EXCEPT !.OwnerReferences = <<>>],
     [BasePod EXCEPT !.DeletionTimestamp = <<540>>],
     [BasePod EXCEPT !.Volumes = <<Volume("hostPath")>>],
     [BasePod EXCEPT !.Volumes = <<Volume("emptyDir")>>]}

\* Each variation Running and Failed.
SafetyKinds ==
    {[pod EXCEPT !.Phase = phase] : pod \in SafetyVariations, phase \in {"Running", "Failed"}}

\* Two ready nodes and NumPods pods: the first two of any safety kind, the others
\* evictable and Running or Failed; the first on n1, the others together on n1 or n2.
SafetyClusters ==
    {[nodes |-> <<Node("n1", TRUE), Node("n2", TRUE)>>, pods |-> PodsOf(kinds, placement)] :
        kinds \in {f \in [1..NumPods -> SafetyKinds] :
                      \A i \in 3..NumPods : f[i] \in {BasePod, FailedPod}},
        placement \in Placements}

\* One-shot, the three strategies enabled, no limit.
SafetyConfigs ==
    {c \in Configs : /\ c.Interval = 0
                     /\ ~c.DryRun
                     /\ c.Limits.MaxPodsToEvictTotal = 0
                     /\ c.Limits.MaxPodsToEvictPerNode = 0}

InitSafety ==
    /\ config \in SafetyConfigs
    /\ cluster \in SafetyClusters
    /\ InitProgram

NextSafety ==
    \/ Run
    \/ RunOnce_Reset
    \/ RunOnce_GetNodes
    \/ RunOnce_Strategy
    \/ RFP_Node
    \/ RFP_Pod
    \/ LNU_Begin
    \/ LNU_Node
    \/ LNU_Pod
    \/ RD_Begin
    \/ RD_Pod

SpecSafety == InitSafety /\ [][NextSafety]_vars

\* Unsafe to evict, in the words of the safety rules: system-critical by priority
\* class, in a system namespace, owned by a DaemonSet, static, standalone and not
\* Failed, terminating, or using host-path or empty-dir storage.
UnsafeToEvict(pod) ==
    \/ pod.PriorityClassName \in {"system-cluster-critical", "system-node-critical"}
    \/ pod.Namespace \in {"kube-system", "kube-public", "kube-node-lease"}
    \/ \E i \in DOMAIN pod.OwnerReferences : pod.OwnerReferences[i].Kind = "DaemonSet"
    \/ StaticAnnotation \in DOMAIN pod.Annotations /\ pod.Annotations[StaticAnnotation] = "file"
    \/ pod.OwnerReferences = <<>> /\ pod.Phase # "Failed"
    \/ pod.DeletionTimestamp # <<>>
    \/ \E i \in DOMAIN pod.Volumes : pod.Volumes[i].HostPath \/ pod.Volumes[i].EmptyDir

AttemptsOf(strategy) == {i \in DOMAIN attempts : attempts[i].strategy = strategy}

\* C2: every pod a strategy has passed to EvictPod in the cycle satisfies CanEvictPod
\* and is of no unsafe category; every platform eviction call and every counted
\* eviction is one of these attempts.
C2_SafeEvictions ==
    /\ \A i \in DOMAIN attempts :
           /\ CanEvictPod(attempts[i].pod).ok
           /\ ~UnsafeToEvict(attempts[i].pod)
           /\ \E j \in DOMAIN cluster.pods : cluster.pods[j] = attempts[i].pod
    /\ \A i \in DOMAIN apiCalls :
           \E j \in DOMAIN attempts : attempts[j].pod.Name = apiCalls[i]
    /\ stats.TotalEvicted = Cardinality({i \in DOMAIN attempts : attempts[i].err = Nil})

\* Two strategies have each passed a pod to EvictPod in a cycle over a cluster
\* that also holds an unsafe pod, which no strategy passed.
C2_Witness ==
    /\ \E s1, s2 \in {"RemoveFailedPods", "LowNodeUtilization", "RemoveDuplicates"} :
           s1 # s2 /\ AttemptsOf(s1) # {} /\ AttemptsOf(s2) # {}
    /\ \E j \in DOMAIN cluster.pods : UnsafeToEvict(cluster.pods[j])
    /\ apiCalls # <<>>

----------------------------------------------------------------------------
(* Properties of the control loop (Spec)                                      *)

\* A cycle has started and no strategy has run in it yet: runOnce is past its
\* ResetStats and is listing the nodes, or is about to execute the first strategy.
BeforeAnyStrategy ==
    \/ pc = "getNodes"
    \/ pc = "strategies" /\ sched.si = 1

\* C7: at the start of every cycle, before any strategy runs, the eviction
\* statistics are all zero with three empty maps: nothing counted in a cycle, success
\* or failure, is carried into the next.
C7_StatsZeroAtCycleStart == BeforeAnyStrategy => stats = ZeroStats

\* A later cycle is about to run its first strategy, and its ResetStats discarded
\* the counts of the cycle before.
C7_Witness ==
    /\ pc = "strategies"
    /\ sched.si = 1
    /\ resetDirty
    /\ stats = ZeroStats

----------------------------------------------------------------------------
(* One RemoveFailedPods cycle against the limits (SpecQuota)                  *)

\* Two ready nodes and up to NumPods + 1 evictable Failed pods, each in one of two
\* namespaces and on one of the two nodes.
QuotaClusters ==
    {[nodes |-> <<Node("n1", TRUE), Node("n2", TRUE)>>,
      pods |-> PodsOf([i \in 1..n |-> [FailedPod EXCEPT !.Namespace = ns[i]]], placement)] :
        n \in {NumPods, NumPods + 1},
        ns \in {f \in [1..(NumPods + 1) -> {"default", "prod"}] : f[1] = "default"},
        placement \in {f \in [1..(NumPods + 1) -> NodeNames] : f[1] = "n1"}}

\* The saturation scenario: ten Failed pods on node n1, none on n2.
SaturationCluster ==
    [nodes |-> <<Node("n1", TRUE), Node("n2", TRUE)>>,
     pods |-> PodsOf([i \in 1..10 |-> FailedPod], [i \in 1..10 |-> "n1"])]

\* One-shot, only RemoveFailedPods enabled, dry-run or not.
QuotaConfigs ==
    {[c EXCEPT !.Strategies.LowNodeUtilization = <<>>,
               !.Strategies.RemoveDuplicates = <<[c.Strategies.RemoveDuplicates[1]
                                                    EXCEPT !.Enabled = FALSE]>>] :
        c \in EvictorConfigs}

\* The limits of the saturation scenario: 3 per node, 100 in total, and no limit
\* or the default 5 per namespace.
SaturationLimits ==
    {[MaxPodsToEvictPerNode |-> 3, MaxPodsToEvictPerNamespace |-> perNs,
      MaxPodsToEvictTotal |-> 100] : perNs \in {0, 5}}

InitQuota ==
    /\ \/ /\ config \in {[c EXCEPT !.Limits = l] : c \in QuotaConfigs, l \in LimitChoices}
          /\ cluster \in QuotaClusters
       \/ /\ config \in {[c EXCEPT !.Limits = l] : c \in QuotaConfigs, l \in SaturationLimits}
          /\ cluster = SaturationCluster
    /\ InitProgram

NextQuota ==
    \/ Run
    \/ RunOnce_Reset
    \/ RunOnce_GetNodes
    \/ RunOnce_Strategy
    \/ RFP_Node
    \/ RFP_Pod

SpecQuota == InitQuota /\ [][NextQuota]_vars

\* Among the attempts before the i-th, the evictions that succeeded.
EvictedBefore(i) == {j \in 1..(i - 1) : attempts[j].err = Nil}

EvictedBeforeOnNode(i, node) == {j \in EvictedBefore(i) : attempts[j].pod.NodeName = node}

EvictedBeforeIn(i, namespace) == {j \in EvictedBefore(i) : attempts[j].pod.Namespace = namespace}

\* The quota error the i-th candidate is owed, Nil if none: the total limit when
\* as many evictions have succeeded, else the per-node limit of the candidate's
\* node, else the per-namespace limit of its namespace.
QuotaErrorOwed(i) ==
    LET pod == attempts[i].pod IN
    IF /\ Limits.MaxPodsToEvictTotal > 0
       /\ Cardinality(EvictedBefore(i)) >= Limits.MaxPodsToEvictTotal
        THEN Err("total", "", Limits.MaxPodsToEvictTotal)
    ELSE IF /\ Limits.MaxPodsToEvictPerNode > 0
            /\ Cardinality(EvictedBeforeOnNode(i, pod.NodeName)) >= Limits.MaxPodsToEvictPerNode
        THEN Err("node", pod.NodeName, Limits.MaxPodsToEvictPerNode)
    ELSE IF /\ Limits.MaxPodsToEvictPerNamespace > 0
            /\ Cardinality(EvictedBeforeIn(i, pod.Namespace)) >= Limits.MaxPodsToEvictPerNamespace
        THEN Err("namespace", pod.Namespace, Limits.MaxPodsToEvictPerNamespace)
    ELSE Nil

NoEvictionFailed == \A i \in DOMAIN attempts : attempts[i].err # ApiError

OnlyTotalLimit ==
    /\ Limits.MaxPodsToEvictTotal > 0
    /\ Limits.MaxPodsToEvictPerNode = 0
    /\ Limits.MaxPodsToEvictPerNamespace = 0

OnlyNodeLimit ==
    /\ Limits.MaxPodsToEvictTotal = 0
    /\ Limits.MaxPodsToEvictPerNode > 0
    /\ Limits.MaxPodsToEvictPerNamespace = 0

\* The strategy has offered all ten pods of the saturation scenario.
SaturationDone ==
    /\ cluster = SaturationCluster
    /\ config.Limits \in SaturationLimits
    /\ Len(attempts) = 10

\* C8: in a RemoveFailedPods cycle every candidate offered when a limit is reached
\* is rejected with that limit's error, and no other is; hence, when no eviction
\* fails, with only a total limit the first maxTotal candidates are evicted and
\* every later one gets the total-limit error, with only a per-node limit the first
\* maxPerNode candidates of each node are evicted and every later one of that node
\* gets the per-node error; and with ten Failed pods on n1, maxPerNode 3 and
\* maxTotal 100, exactly 3 are evicted and each of the other 7 is rejected with the
\* per-node error for n1 and limit 3.
C8_QuotaSaturation ==
    /\ \A i \in DOMAIN attempts :
           IF QuotaErrorOwed(i) # Nil
           THEN attempts[i].err = QuotaErrorOwed(i)
           ELSE attempts[i].err \in {Nil, ApiError}
    /\ (OnlyTotalLimit /\ NoEvictionFailed) =>
           \A i \in DOMAIN attempts :
               attempts[i].err = IF i <= Limits.MaxPodsToEvictTotal THEN Nil
                                 ELSE Err("total", "", Limits.MaxPodsToEvictTotal)
    /\ (OnlyNodeLimit /\ NoEvictionFailed) =>
           \A i \in DOMAIN attempts :
               LET node == attempts[i].pod.NodeName
                   earlier == {j \in 1..(i - 1) : attempts[j].pod.NodeName = node}
               IN  attempts[i].err =
                       IF Cardinality(earlier) < Limits.MaxPodsToEvictPerNode THEN Nil
                       ELSE Err("node", node, Limits.MaxPodsToEvictPerNode)
    /\ (SaturationDone /\ NoEvictionFailed) =>
           /\ stats.TotalEvicted = 3
           /\ Get(stats.EvictedByNode, "n1") = 3
           /\ \A i \in 1..3 : attempts[i].err = Nil
           /\ \A i \in 4..10 : attempts[i].err = Err("node", "n1", 3)
           /\ ~config.DryRun => Len(apiCalls) = 3

\* The saturation scenario has run outside dry-run with no failed eviction: the
\* tenth pod has just been rejected with the per-node error.
C8_Witness ==
    /\ SaturationDone
    /\ NoEvictionFailed
    /\ ~config.DryRun
    /\ stats.TotalEvicted = 3
    /\ attempts[10].err = Err("node", "n1", 3)

----------------------------------------------------------------------------
(* CanEvictPod applied to every kind of pod (SpecCanEvict)                    *)

\* Every combination of what CanEvictPod reads of a pod.
AllPods ==
    {[BasePod EXCEPT !.PriorityClassName = class, !.Namespace = ns,
                     !.OwnerReferences = owners, !.Annotations = annotations,
                     !.Phase = phase, !.DeletionTimestamp = deletion,
                     !.Volumes = volumes] :
        class \in {"", "high", "system-cluster-critical", "system-node-critical"},
        ns \in {"default", "kube-system", "kube-public", "kube-node-lease"},
        owners \in {<<>>, <<Owner("ReplicaSet", "web")>>, <<Owner("DaemonSet", "agent")>>,
                    <<Owner("ReplicaSet", "web"), Owner("DaemonSet", "agent")>>},
        annotations \in {NoAnnotations, StaticAnnotation :> "file", StaticAnnotation :> "api"},
        phase \in {"Running", "Failed"},
        deletion \in {<<>>, <<540>>},
        volumes \in {<<>>, <<Volume("configMap")>>, <<Volume("hostPath")>>,
                     <<Volume("configMap"), Volume("emptyDir")>>}}

\* CanEvictPod(pod) on the pod the behaviour started with.
Check_CanEvictPod ==
    /\ last.op = "none"
    /\ last' = [last EXCEPT !.op = "CanEvictPod", !.verdict = CanEvictPod(last.pod)]
    /\ UNCHANGED <<file, ticker, config, cluster, pc, cancelled, sched, gatekeeper, resetDirty,
                   mu, memo, callers>>

\* A fresh gatekeeper and any pod, on which CanEvictPod is about to be called.
InitCanEvict ==
    /\ config \in SafetyConfigs
    /\ cluster = [nodes |-> <<>>, pods |-> <<>>]
    /\ file = <<>>
    /\ ticker = 0
    /\ stats = ZeroStats
    /\ mu = [writer |-> 0, readers |-> {}]
    /\ pc = "Run"
    /\ cancelled = FALSE
    /\ sched = NoLocals
    /\ attempts = <<>>
    /\ apiCalls = <<>>
    /\ resetDirty = FALSE
    /\ last \in {[NoCall EXCEPT !.pod = pod] : pod \in AllPods}
    /\ memo = NoCall
    /\ callers = <<>>

NextCanEvict == Check_CanEvictPod

SpecCanEvict == InitCanEvict /\ [][NextCanEvict]_vars

\* The reasons of the six rules, in the order in which the rules are to be tried.
RuleOrder ==
    <<"system critical pod", "daemonset pod", "static pod", "standalone pod (not failed)",
      "pod is being deleted", "pod has local storage">>

\* The i-th rule applies to the pod.
RuleApplies(i, pod) ==
    CASE i = 1 -> \/ pod.PriorityClassName \in {"system-cluster-critical", "system-node-critical"}
                  \/ pod.Namespace \in {"kube-system", "kube-public", "kube-node-lease"}
      [] i = 2 -> \E j \in DOMAIN pod.OwnerReferences : pod.OwnerReferences[j].Kind = "DaemonSet"
      [] i = 3 -> /\ StaticAnnotation \in DOMAIN pod.Annotations
                  /\ pod.Annotations[StaticAnnotation] = "file"
      [] i = 4 -> pod.OwnerReferences = <<>> /\ pod.Phase # "Failed"
      [] i = 5 -> pod.DeletionTimestamp # <<>>
      [] i = 6 -> \E j \in DOMAIN pod.Volumes : pod.Volumes[j].HostPath \/ pod.Volumes[j].EmptyDir

RulesApplying(pod) == {i \in DOMAIN RuleOrder : RuleApplies(i, pod)}

\* C9: CanEvictPod tries the rules in the order system-critical, DaemonSet,
\* static, standalone-unless-Failed, terminating, local storage, and answers with
\* the reason of the first that applies, or admits the pod when none does; so a
\* Failed pod without owner is never rejected as standalone, and a DaemonSet pod of
\* kube-system is rejected as system-critical.
C9_FirstMatch ==
    last.op = "CanEvictPod" =>
        LET pod == last.pod
            applying == RulesApplying(pod)
        IN  /\ applying = {} => last.verdict = Verdict(TRUE, "")
            /\ applying # {} =>
                   LET first == CHOOSE i \in applying : \A j \in applying : i <= j
                   IN  last.verdict = Verdict(FALSE, RuleOrder[first])
            /\ (pod.Phase = "Failed" /\ pod.OwnerReferences = <<>>) =>
                   last.verdict.reason # "standalone pod (not failed)"
            /\ (RuleApplies(2, pod) /\ pod.Namespace = "kube-system") =>
                   last.verdict = Verdict(FALSE, "system critical pod")

\* CanEvictPod has rejected, as system-critical, a DaemonSet pod of kube-system
\* that is also terminating.
C9_Witness ==
    /\ last.op = "CanEvictPod"
    /\ RuleApplies(2, last.pod)
    /\ last.pod.Namespace = "kube-system"
    /\ last.pod.PriorityClassName = ""
    /\ last.pod.DeletionTimestamp # <<>>
    /\ last.verdict = Verdict(FALSE, "system critical pod")

----------------------------------------------------------------------------
(* CanEvictPod between calls that change the statistics (SpecPure)            *)

\* The pods evicted between the CanEvictPod calls.
PurePods == {BasePod, [BasePod EXCEPT !.Namespace = "prod", !.NodeName = "n2"]}

Pure_EvictPod == EvictPodCall(PurePods, {RD_reason("n1")})

InitPure ==
    /\ config \in {c \in Configs : c.Interval = 0}
    /\ cluster = [nodes |-> <<>>, pods |-> <<>>]
    /\ InitProgram

NextPure ==
    \/ Pure_EvictPod
    \/ Call_ResetStats
    \/ Call_CanEvictPod

SpecPure == InitPure /\ [][NextPure]_vars

\* C10: a CanEvictPod call leaves the statistics as they were, and returns for a
\* pod what the first CanEvictPod call of the behaviour returned for it, whatever
\* evictions, failures and resets came in between and whatever the limits and the
\* dry-run flag are; so a pod once rejected for safety is not admitted later.
C10_CanEvictPure ==
    [][last'.op = "CanEvictPod" =>
          /\ stats' = stats
          /\ (memo.op = "CanEvictPod" /\ memo.pod = last'.pod) =>
                 last'.verdict = memo.verdict]_vars

\* A pod rejected by the first CanEvictPod call has been rejected again, with the
\* same reason, after the counters had changed.
C10_Witness ==
    /\ last.op = "CanEvictPod"
    /\ memo.pod = last.pod
    /\ ~memo.verdict.ok
    /\ last.verdict = memo.verdict
    /\ memo.got # CountersOf(stats)
    /\ stats.TotalEvicted > 0

----------------------------------------------------------------------------
(* Several goroutines calling the gatekeeper at once (SpecConc)               *)

\* A caller: the method it is in (none: between calls), where it is in it, the
\* arguments, and the copy GetEvictionStats is building.
Idle ==
    [op |-> "none", pc |-> "idle", pod |-> BasePod, reason |-> "", got |-> ZeroStats]

Callers == 1..NumCallers

SetCaller(i, c) == callers' = [callers EXCEPT ![i] = c]

At(i, op, where) == callers[i].op = op /\ callers[i].pc = where

\* A caller enters EvictPod, ResetStats or GetEvictionStats.
Conc_Call ==
    \E i \in Callers :
        /\ callers[i].pc = "idle"
        /\ \/ \E pod \in PurePods :
                 SetCaller(i, [Idle EXCEPT !.op = "EvictPod", !.pc = "lock", !.pod = pod,
                                           !.reason = RD_reason("n1")])
           \/ SetCaller(i, [Idle EXCEPT !.op = "ResetStats", !.pc = "lock"])
           \/ SetCaller(i, [Idle EXCEPT !.op = "GetEvictionStats", !.pc = "rlock"])
        /\ UNCHANGED <<file, ticker, config, cluster, pc, cancelled, sched, gatekeeper, resetDirty,
                       mu, last, memo>>

\* A mutex that never makes a caller wait.
CanLockAlways(i) == TRUE

\* sync.RWMutex.Lock returns only when no one holds the mutex, to write or to read.
CanLock(i) == mu.writer = 0 /\ mu.readers = {}

\* sync.RWMutex.RLock returns only when no one holds the mutex to write.
CanRLock(i) == mu.writer = 0

\* e.mu.Lock() of EvictPod and of ResetStats.
Conc_Lock ==
    \E i \in Callers :
        /\ callers[i].pc = "lock"
        /\ CanLock(i)
        /\ mu' = [mu EXCEPT !.writer = i]
        /\ SetCaller(i, [callers[i] EXCEPT
                            !.pc = IF callers[i].op = "EvictPod" THEN "check" ELSE "reset"])
        /\ UNCHANGED <<file, ticker, config, cluster, pc, cancelled, sched, gatekeeper, resetDirty,
                       last, memo>>

\* EvictPod: checkEvictionLimits; on an error return it, in dry-run go on to
\* updateStats, otherwise to the API call.
Conc_Check ==
    \E i \in Callers :
        /\ At(i, "EvictPod", "check")
        /\ SetCaller(i, [callers[i] EXCEPT
                            !.pc = IF checkEvictionLimits(stats, callers[i].pod) # Nil
                                       THEN "unlock"
                                   ELSE IF config.DryRun THEN "update"
                                   ELSE "api"])
        /\ UNCHANGED <<file, ticker, config, cluster, pc, cancelled, sched, gatekeeper, resetDirty,
                       mu, last, memo>>

\* EvictPod: the API call fails (FailedEvictions++ and return) or succeeds.
Conc_Api ==
    \E i \in Callers :
        /\ At(i, "EvictPod", "api")
        /\ \/ /\ stats.FailedEvictions < MaxFailures
              /\ stats' = [stats EXCEPT !.FailedEvictions = @ + 1]
              /\ SetCaller(i, [callers[i] EXCEPT !.pc = "unlock"])
           \/ /\ stats' = stats
              /\ SetCaller(i, [callers[i] EXCEPT !.pc = "update"])
        /\ apiCalls' = apiCalls
        /\ attempts' = attempts
        /\ UNCHANGED <<file, ticker, config, cluster, pc, cancelled, sched, resetDirty, mu, last, memo>>

\* EvictPod: updateStats(pod, reason, true) and return nil.
Conc_Update ==
    \E i \in Callers :
        /\ At(i, "EvictPod", "update")
        /\ stats' = updateStats(stats, callers[i].pod, callers[i].reason, TRUE)
        /\ SetCaller(i, [callers[i] EXCEPT !.pc = "unlock"])
        /\ UNCHANGED <<file, ticker, config, cluster, pc, cancelled, sched, attempts, apiCalls,
                       resetDirty, mu, last, memo>>

\* ResetStats: e.stats = EvictionStats{...}
Conc_Reset ==
    \E i \in Callers :
        /\ At(i, "ResetStats", "reset")
        /\ ResetStats
        /\ SetCaller(i, [callers[i] EXCEPT !.pc = "unlock"])
        /\ UNCHANGED <<file, ticker, config, cluster, pc, cancelled, sched, attempts, apiCalls,
                       mu, last, memo>>

\* The deferred e.mu.Unlock(): the method returns.
Conc_Unlock ==
    \E i \in Callers :
        /\ callers[i].pc = "unlock"
        /\ mu' = [mu EXCEPT !.writer = 0]
        /\ SetCaller(i, Idle)
        /\ UNCHANGED <<file, ticker, config, cluster, pc, cancelled, sched, gatekeeper, resetDirty,
                       last, memo>>

\* e.mu.RLock() of GetEvictionStats.
Conc_RLock ==
    \E i \in Callers :
        /\ At(i, "GetEvictionStats", "rlock")
        /\ CanRLock(i)
        /\ mu' = [mu EXCEPT !.readers = @ \cup {i}]
        /\ SetCaller(i, [callers[i] EXCEPT !.pc = "counters"])
        /\ UNCHANGED <<file, ticker, config, cluster, pc, cancelled, sched, gatekeeper, resetDirty,
                       last, memo>>

\* GetEvictionStats: the struct literal copies the two counters.
Conc_CopyCounters ==
    \E i \in Callers :
        /\ At(i, "GetEvictionStats", "counters")
        /\ SetCaller(i, [callers[i] EXCEPT !.pc = "maps", !.got = CountersOf(stats)])
        /\ UNCHANGED <<file, ticker, config, cluster, pc, cancelled, sched, gatekeeper, resetDirty,
                       mu, last, memo>>

\* GetEvictionStats: the three loops copy the maps.
Conc_CopyMaps ==
    \E i \in Callers :
        /\ At(i, "GetEvictionStats", "maps")
        /\ SetCaller(i, [callers[i] EXCEPT
                            !.pc = "runlock",
                            !.got = [@ EXCEPT
                                       !.EvictedByNode = stats.EvictedByNode,
                                       !.EvictedByNamespace = stats.EvictedByNamespace,
                                       !.EvictedByReason = stats.EvictedByReason]])
        /\ UNCHANGED <<file, ticker, config, cluster, pc, cancelled, sched, gatekeeper, resetDirty,
                       mu, last, memo>>

\* The deferred e.mu.RUnlock(): GetEvictionStats returns the copy.
Conc_RUnlock ==
    \E i \in Callers :
        /\ At(i, "GetEvictionStats", "runlock")
        /\ mu' = [mu EXCEPT !.readers = @ \ {i}]
        /\ SetCaller(i, Idle)
        /\ UNCHANGED <<file, ticker, config, cluster, pc, cancelled, sched, gatekeeper, resetDirty,
                       last, memo>>

\* One-shot configurations, dry-run or not, with every limit set.
ConcConfigs ==
    {[c EXCEPT !.Limits = l] :
        c \in EvictorConfigs,
        l \in {x \in LimitChoices : /\ x.MaxPodsToEvictTotal > 0
                                    /\ x.MaxPodsToEvictPerNode > 0
                                    /\ x.MaxPodsToEvictPerNamespace = x.MaxPodsToEvictPerNode}}

InitConc ==
    /\ config \in ConcConfigs
    /\ cluster = [nodes |-> <<>>, pods |-> <<>>]
    /\ file = <<>>
    /\ ticker = 0
    /\ stats = ZeroStats
    /\ mu = [writer |-> 0, readers |-> {}]
    /\ pc = "Run"
    /\ cancelled = FALSE
    /\ sched = NoLocals
    /\ attempts = <<>>
    /\ apiCalls = <<>>
    /\ resetDirty = FALSE
    /\ last = NoCall
    /\ memo = NoCall
    /\ callers = [i \in Callers |-> Idle]

NextConc ==
    \/ Conc_Call
    \/ Conc_Lock
    \/ Conc_Check
    \/ Conc_Api
    \/ Conc_Update
    \/ Conc_Reset
    \/ Conc_Unlock
    \/ Conc_RLock
    \/ Conc_CopyCounters
    \/ Conc_CopyMaps
    \/ Conc_RUnlock

SpecConc == InitConc /\ [][NextConc]_vars

\* The caller is between Lock and Unlock, or between RLock and RUnlock.
Writing(i) == callers[i].pc \in {"check", "api", "update", "reset", "unlock"}

Reading(i) == callers[i].pc \in {"counters", "maps", "runlock"}

\* C4: whatever the interleaving of concurrent EvictPod, ResetStats and
\* GetEvictionStats calls, no counter passes its limit; and one EvictPod's quota check
\* and statistics update are atomic with respect to every other operation: no two
\* callers are inside a writing method at once, none is while another reads, the
\* limits checked by a caller still hold when it updates the statistics, and the copy
\* GetEvictionStats returns is of one moment.
C4_QuotaUnderConcurrency ==
    /\ AllLimitsPositive => WithinLimits(stats)
    /\ \A i, j \in Callers :
           /\ (Writing(i) /\ Writing(j)) => i = j
           /\ ~(Writing(i) /\ Reading(j))
    /\ \A i \in Callers :
           callers[i].pc \in {"api", "update"} =>
               checkEvictionLimits(stats, callers[i].pod) = Nil
    /\ \A i \in Callers :
           /\ callers[i].pc = "maps" => callers[i].got = CountersOf(stats)
           /\ callers[i].pc = "runlock" => callers[i].got = stats

\* A caller is inside EvictPod, past the quota check, about to take the last
\* eviction its node's limit allows, while another caller waits for the mutex to
\* evict a pod of the same node.
C4_Witness ==
    \E i, j \in Callers :
        /\ i # j
        /\ At(i, "EvictPod", "update")
        /\ At(j, "EvictPod", "lock")
        /\ callers[i].pod = callers[j].pod
        /\ Get(stats.EvictedByNode, callers[i].pod.NodeName) + 1
               = Limits.MaxPodsToEvictPerNode

----------------------------------------------------------------------------
(* Cycles in which every strategy has work to do (SpecCycle)                  *)

\* Three ready nodes. n1 holds a Failed pod and two Running replicas, n2 a third
\* replica, n3 nothing: p1 is a failed pod, n1 and n2 are over-utilized while n3 is
\* under-utilized, and p3 duplicates p2 on n1.
BusyCluster ==
    [nodes |-> <<Node("n1", TRUE), Node("n2", TRUE), Node("n3", TRUE)>>,
     pods |-> PodsOf(<<FailedPod, BasePod, BasePod, BasePod>>, <<"n1", "n1", "n1", "n2">>)]

\* A single ready node n1 holding the Failed pod default/web-1 of ReplicaSet web,
\* created 600 s ago.
LoneCluster == [nodes |-> <<Node("n1", TRUE)>>, pods |-> <<FailedPod>>]

\* The same pod on n1, and a second ready node.
PairCluster == [nodes |-> <<Node("n1", TRUE), Node("n2", TRUE)>>, pods |-> <<FailedPod>>]

CycleClusters == {BusyCluster, LoneCluster, PairCluster}

\* Each strategy is enabled or left out of the configuration (a nil pointer).
StrategyChoices ==
    [RemoveFailedPods : {<<>>} \cup {<<c>> : c \in RFPConfigs},
     LowNodeUtilization : {<<>>} \cup {<<c>> : c \in LNUConfigs},
     RemoveDuplicates : {<<>>} \cup {<<c>> : c \in RDConfigs}]

\* The node selectors: none, and one that no node of the clusters matches.
NodeSelectors == {NoAnnotations, "zone" :> "b"}

CycleConfigs ==
    {[DryRun |-> dryRun, Interval |-> interval, NodeSelector |-> selector,
      Limits |-> [MaxPodsToEvictPerNode |-> 0, MaxPodsToEvictPerNamespace |-> 0,
                  MaxPodsToEvictTotal |-> limit],
      Strategies |-> strategies] :
        dryRun \in BOOLEAN, interval \in Intervals, selector \in NodeSelectors,
        limit \in {0, MaxLimit}, strategies \in StrategyChoices}

InitCycle ==
    /\ config \in CycleConfigs
    /\ cluster \in CycleClusters
    /\ InitProgram

NextCycle ==
    \/ Run
    \/ RunOnce_Reset
    \/ RunOnce_GetNodes
    \/ RunOnce_Strategy
    \/ RFP_Node
    \/ RFP_Pod
    \/ LNU_Begin
    \/ LNU_Node
    \/ LNU_Pod
    \/ RD_Begin
    \/ RD_Pod
    \/ Tick
    \/ CtxDone
    \/ Cancel

SpecCycle == InitCycle /\ [][NextCycle]_vars

\* The steps of the goroutine that runs Run: it is never stopped for ever, and
\* the ticker fires.
CycleSteps ==
    \/ Run
    \/ RunOnce_Reset
    \/ RunOnce_GetNodes
    \/ RunOnce_Strategy
    \/ RFP_Node
    \/ RFP_Pod
    \/ LNU_Begin
    \/ LNU_Node
    \/ LNU_Pod
    \/ RD_Begin
    \/ RD_Pod
    \/ Tick

\* Run's select picks at random among the cases that are ready: the case of a
\* done context, ready at every select from the cancellation on, is picked in the end.
SpecCycleFair == InitCycle /\ [][NextCycle]_vars /\ WF_vars(CycleSteps) /\ SF_vars(CtxDone)

----------------------------------------------------------------------------
(* The order of the strategies in a cycle (SpecCycle)                         *)

\* The reasons each strategy can pass to EvictPod on the cluster.
FailedCleanupReasons == {RFP_reason(cluster.pods[i]) : i \in DOMAIN cluster.pods}

UtilizationReasons == {LNU_reason(u) : u \in calculateNodeUtilizations(cluster.nodes)}

DuplicateReasons == {RD_reason(cluster.nodes[i].Name) : i \in DOMAIN cluster.nodes}

\* 1, 2, 3: the reason is one of RemoveFailedPods, LowNodeUtilization, RemoveDuplicates.
ReasonRank(reason) ==
    IF reason \in FailedCleanupReasons THEN 1
    ELSE IF reason \in UtilizationReasons THEN 2
    ELSE IF reason \in DuplicateReasons THEN 3
    ELSE 0

\* C11: in every cycle the eviction attempts come in the order of the strategies: no
\* attempt with a 'Failed pod cleanup' reason after one with a 'Node over-utilization
\* balancing' reason, and none of those after one with a 'Duplicate pod removal' reason.
C11_StrategyOrder ==
    \A i, j \in DOMAIN attempts :
        /\ ReasonRank(attempts[i].reason) # 0
        /\ i < j => ReasonRank(attempts[i].reason) <= ReasonRank(attempts[j].reason)

\* A cycle in which each of the three strategies has made an eviction attempt.
C11_Witness ==
    \A rank \in 1..3 : \E i \in DOMAIN attempts : ReasonRank(attempts[i].reason) = rank

----------------------------------------------------------------------------
(* Failures inside a cycle (SpecCycle, SpecCycleFair)                         *)

\* runOnce has returned: Run waits for the ticker, or has returned as well.
CycleEnded == pc \in {"idle", "returned"}

\* An Execute of the cycle returned an error.
StrategyFailed == \E i \in DOMAIN sched.ran : sched.ran[i].err # "nil"

\* Every enabled strategy was executed in the cycle, in the factory's order.
RanAll == [i \in DOMAIN sched.ran |-> sched.ran[i].name] = CreateStrategies

\* C12: when an enabled strategy's Execute returns an error, the later enabled
\* strategies of the cycle are still executed and the cycle completes: it ends with
\* every enabled strategy executed, the statistics printed and runOnce returning nil;
\* and in periodic mode a later cycle starts unless the context is cancelled.
C12_FailureIsolation ==
    /\ [](CycleEnded /\ StrategyFailed =>
            /\ RanAll
            /\ sched.printed
            /\ config.Interval = 0 => sched.ret = "nil")
    /\ (pc = "idle" /\ StrategyFailed) ~> (pc = "runOnce" \/ cancelled)

\* A cycle has ended in which LowNodeUtilization returned an error and
\* RemoveDuplicates, executed after it, got a pod evicted.
C12_Witness ==
    /\ CycleEnded
    /\ \E i \in DOMAIN sched.ran :
           /\ sched.ran[i].name = "LowNodeUtilization"
           /\ sched.ran[i].err # "nil"
    /\ \E i \in AttemptsOf("RemoveDuplicates") : attempts[i].err = Nil

\* The nodes runOnce passes to every strategy of the cycle.
CycleNodes == filterNodesBySelector(getAvailableNodes)

\* The pod listings a strategy has made in the cycle.
ListingsBy(name) == {j \in DOMAIN sched.listings : sched.listings[j].strategy = name}

\* C13: in every strategy, when the listing of one node's pods fails the strategy
\* continues with the next node: its Execute does not return the failure, and it
\* has listed every node it was given by the time it returns.
C13_ListingFailureIsLocal ==
    \A i \in DOMAIN sched.ran :
        LET name == sched.ran[i].name IN
        (\E j \in ListingsBy(name) : ~sched.listings[j].ok) =>
            /\ sched.ran[i].err = "nil"
            /\ \A n \in DOMAIN CycleNodes :
                   \E j \in ListingsBy(name) : sched.listings[j].node = CycleNodes[n].Name

----------------------------------------------------------------------------
(* The two modes of Run (SpecCycle, SpecCycleFair)                            *)

\* C14: with interval 0, Run executes exactly one cycle and then returns: the only
\* cycle is the one that starts when Run is called, Run never waits on the ticker,
\* it does return, and once it has returned nothing more happens.
C14_OneShot ==
    /\ [][config.Interval = 0 =>
            /\ pc' # "idle"
            /\ pc' = "runOnce" /\ pc # "runOnce" => pc = "Run"
            /\ pc = "returned" => pc' = "returned"]_vars
    /\ (config.Interval = 0) ~> (pc = "returned")

\* A one-shot Run has returned nil after a cycle that evicted a pod and printed
\* its statistics.
C14_Witness ==
    /\ config.Interval = 0
    /\ pc = "returned"
    /\ sched.ret = "nil"
    /\ sched.printed
    /\ stats.TotalEvicted > 0


\* C16: with interval > 0, Run executes one cycle at once and another at each
\* wake-up of the ticker; no cycle, whatever it returns, ends the loop: Run returns
\* only from the select that finds the context done, with the context's error, and
\* no cycle starts after that; and once the context is cancelled Run does return.
C16_Periodic ==
    /\ [][config.Interval > 0 =>
            /\ pc = "Run" /\ pc' # pc => pc' = "runOnce"
            /\ pc = "idle" /\ pc' # pc =>
                    \/ pc' = "runOnce"
                    \/ pc' = "returned" /\ cancelled /\ sched'.ret = "context canceled"
            /\ pc' = "returned" => pc \in {"idle", "returned"}
            /\ pc = "returned" => pc' = "returned"]_vars
    /\ (config.Interval > 0 /\ pc = "idle") ~> (pc = "runOnce" \/ cancelled)
    /\ (config.Interval > 0 /\ cancelled) ~> (pc = "returned")

\* A periodic Run has returned the context's error; its last cycle was not the
\* first and had failed to list the nodes while the context was not cancelled.
C16_Witness ==
    /\ config.Interval > 0
    /\ pc = "returned"
    /\ sched.ret = "context canceled"
    /\ sched.err = "failed to get available nodes: connection refused"
    /\ resetDirty


\* The pod listings of the cycle that returned the node's pods.
SuccessfulListings == {j \in DOMAIN sched.listings : sched.listings[j].ok}

\* C17: once the context is cancelled while a strategy is running, the strategy
\* completes at most the eviction attempt in progress: in no step taken with a
\* cancelled context is EvictPod called for a further candidate or are the pods of a
\* further node, or of a later strategy, brought in.
C17_CancellationStopsWork ==
    [][cancelled =>
        /\ Len(attempts') <= Len(attempts)
        /\ SuccessfulListings' \subseteq SuccessfulListings]_vars

\* main: what Run returned is fatal ("Scheduler failed") unless it is nil or is
\* context.Canceled itself.
IsSchedulerFailure(ret) == ret # "nil" /\ ret # "context canceled"

\* C18: whenever Run ends with the context cancelled, in periodic or one-shot mode
\* and wherever in the cycle the cancellation arrived, what Run returns is nil or the
\* cancellation error itself: main treats it as a clean stop, never as a failure.
C18_CancellationIsCleanStop ==
    pc = "returned" /\ cancelled => ~IsSchedulerFailure(sched.ret)

\* C19: every cycle that lists the nodes successfully ends with the cycle summary,
\* also when fewer than 2 nodes are available or the node selector matches none.
C19_SummaryAlways == CycleEnded /\ sched.err = "nil" => sched.printed

----------------------------------------------------------------------------
(* The single failed pod scenario (SpecCycle)                                 *)

\* RemoveFailedPods enabled with minLifetimeSeconds 300, no namespace filter, no
\* node selector, dry-run.
ScenarioConfig ==
    /\ config.DryRun
    /\ DOMAIN config.NodeSelector = {}
    /\ IsEnabled("RemoveFailedPods")
    /\ RFPConfig.MinPodLifetimeSeconds = 300
    /\ RFPConfig.IncludedNamespaces = <<>>
    /\ RFPConfig.ExcludedNamespaces = <<>>

\* The cycle evicted one pod, for the reason of a Failed pod, calling no platform
\* eviction.
ScenarioResult ==
    /\ stats.TotalEvicted = 1
    /\ Get(stats.EvictedByReason, "Failed pod cleanup - Phase: Failed") = 1
    /\ apiCalls = <<>>

\* C20 as stated: with one node holding the Failed pod default/web-1, a cycle of
\* the scenario's configuration ends with totalEvicted = 1,
\* byReason['Failed pod cleanup - Phase: Failed'] = 1 and no platform eviction call.
C20_AsStated ==
    cluster = LoneCluster /\ ScenarioConfig /\ CycleEnded /\ sched.err = "nil"
        => ScenarioResult

\* C20: with a second ready node, a cycle of the scenario whose listings all
\* succeed ends with totalEvicted = 1, byReason['Failed pod cleanup - Phase: Failed']
\* = 1 and no platform eviction call; with the single node it evicts nothing.
C20_TwoNodeScenario ==
    ScenarioConfig /\ CycleEnded /\ sched.err = "nil" =>
        /\ cluster = PairCluster /\ SuccessfulListings = DOMAIN sched.listings
                => ScenarioResult
        /\ cluster = LoneCluster => stats = ZeroStats /\ attempts = <<>>

\* A cycle of the scenario on the two nodes has ended: default/web-1 was evicted
\* in dry-run and the statistics were printed.
C20_Witness ==
    /\ cluster = PairCluster
    /\ ScenarioConfig
    /\ CycleEnded
    /\ sched.printed
    /\ ScenarioResult
    /\ \E i \in DOMAIN attempts :
           attempts[i].pod.Name = "web-1" /\ attempts[i].pod.Namespace = "default"
----------------------------------------------------------------------------
(* package config: LoadConfig, and main up to Run (SpecLoad)                  *)

setDefaultsKeepsLimits(c) ==
    [c EXCEPT
        !.Interval = IF @ = 0 THEN 300 ELSE @,
        !.LogLevel = IF @ = "" THEN "info" ELSE @]

\* setDefaults. Durations are in seconds: 5 * time.Minute is 300.
setDefaults(c) ==
    [c EXCEPT
        !.Interval = IF @ = 0 THEN 300 ELSE @,
        !.LogLevel = IF @ = "" THEN "info" ELSE @,
        !.Limits.MaxPodsToEvictPerNode = IF @ = 0 THEN 10 ELSE @,
        !.Limits.MaxPodsToEvictPerNamespace = IF @ = 0 THEN 5 ELSE @,
        !.Limits.MaxPodsToEvictTotal = IF @ = 0 THEN 50 ELSE @]

\* validateResourceThresholds: the error, or Nil.
validateResourceThresholds(thresholds) ==
    IF thresholds.CPU < 0 \/ thresholds.CPU > 100
        THEN "CPU threshold must be between 0 and 100"
    ELSE IF thresholds.Memory < 0 \/ thresholds.Memory > 100
        THEN "Memory threshold must be between 0 and 100"
    ELSE IF thresholds.Pods < 0 \/ thresholds.Pods > 100
        THEN "Pods threshold must be between 0 and 100"
    ELSE "nil"

\* validateConfig: the error, or "nil". time.Minute is 60.
validateConfig(c) ==
    LET lnu == c.Strategies["LowNodeUtilization"] IN
    IF c.Interval < 60 THEN "interval must be at least 1 minute"
    ELSE IF c.Limits.MaxPodsToEvictPerNode < 0 THEN "maxPodsToEvictPerNode must be >= 0"
    ELSE IF c.Limits.MaxPodsToEvictPerNamespace < 0
        THEN "maxPodsToEvictPerNamespace must be >= 0"
    ELSE IF c.Limits.MaxPodsToEvictTotal < 0 THEN "maxPodsToEvictTotal must be >= 0"
    ELSE IF lnu # <<>> /\ lnu[1].Enabled
                /\ validateResourceThresholds(lnu[1].Thresholds) # "nil"
        THEN "invalid thresholds: " \o validateResourceThresholds(lnu[1].Thresholds)
    ELSE IF lnu # <<>> /\ lnu[1].Enabled
                /\ validateResourceThresholds(lnu[1].TargetThresholds) # "nil"
        THEN "invalid targetThresholds: "
                \o validateResourceThresholds(lnu[1].TargetThresholds)
    ELSE "nil"

\* LoadConfig on a file that was read and parsed into c: the configuration with
\* its defaults and, when it is not valid, the error.
LoadConfig(c) ==
    LET loaded == setDefaults(c)
        err == validateConfig(loaded)
    IN  [config |-> loaded,
         err |-> IF err = "nil" THEN "nil" ELSE "invalid config: " \o err]

\* main: load the configuration; exit on an error (klog.Fatalf), and otherwise
\* create the scheduler and call Run.
Main_LoadConfig ==
    /\ pc = "LoadConfig"
    /\ LET r == LoadConfig(file[1]) IN
       /\ config' = r.config
       /\ pc' = IF r.err = "nil" THEN "Run" ELSE "exit"
       /\ sched' = [sched EXCEPT !.ret = IF r.err = "nil" THEN @ ELSE r.err]
    /\ UNCHANGED <<cluster, cancelled, gatekeeper, resetDirty, harness>>

\* The intervals of a configuration file, in seconds.
FileIntervals == {-60, 0, 30, 59, 60, 300}

\* The limits of a configuration file: absent, one negative, or all set.
FileLimits ==
    {l \in [MaxPodsToEvictPerNode : {-1, 0, 1}, MaxPodsToEvictPerNamespace : {-1, 0, 1},
            MaxPodsToEvictTotal : {-1, 0, MaxLimit}] :
        \/ l.MaxPodsToEvictPerNode = 0 /\ l.MaxPodsToEvictPerNamespace = 0
        \/ l.MaxPodsToEvictPerNode = 1 /\ l.MaxPodsToEvictPerNamespace = 1
                /\ l.MaxPodsToEvictTotal = MaxLimit
        \/ l.MaxPodsToEvictPerNode = 0 /\ l.MaxPodsToEvictTotal = 0}

\* The LowNodeUtilization section of a file: absent, valid, or with a threshold
\* outside 0..100.
FileLNU ==
    {<<>>}
    \cup {<<c>> : c \in LNUConfigs}
    \cup {<<[c EXCEPT !.Thresholds.CPU = 101]>> : c \in LNUConfigs}
    \cup {<<[c EXCEPT !.TargetThresholds.Pods = -1]>> : c \in LNUConfigs}

Files ==
    {[DryRun |-> TRUE, Interval |-> interval, NodeSelector |-> NoAnnotations,
      Limits |-> limits, LogLevel |-> logLevel,
      Strategies |-> [RemoveFailedPods |-> <<rfp>>, LowNodeUtilization |-> lnu,
                      RemoveDuplicates |-> <<>>]] :
        interval \in FileIntervals, limits \in FileLimits, logLevel \in {"", "debug"},
        rfp \in RFPConfigs, lnu \in FileLNU}

\* Two ready nodes, a Failed pod on the first and a Running pod on the second.
LoadCluster ==
    [nodes |-> <<Node("n1", TRUE), Node("n2", TRUE)>>,
     pods |-> PodsOf(<<FailedPod, BasePod>>, <<"n1", "n2">>)]

\* main has parsed its flags; yaml.Unmarshal has filled a Config from the file.
InitLoad ==
    /\ file \in {<<f>> : f \in Files}
    /\ ticker = 0
    /\ config = file[1]
    /\ cluster = LoadCluster
    /\ stats = ZeroStats
    /\ mu = [writer |-> 0, readers |-> {}]
    /\ pc = "LoadConfig"
    /\ cancelled = FALSE
    /\ sched = NoLocals
    /\ attempts = <<>>
    /\ apiCalls = <<>>
    /\ resetDirty = FALSE
    /\ last = NoCall
    /\ memo = NoCall
    /\ callers = <<>>

NextLoad ==
    \/ Main_LoadConfig
    \/ Run
    \/ RunOnce_Reset
    \/ RunOnce_GetNodes
    \/ RunOnce_Strategy
    \/ RFP_Node
    \/ RFP_Pod
    \/ LNU_Begin
    \/ Tick

SpecLoad == InitLoad /\ [][NextLoad]_vars

\* Nothing but the interval can make validation reject the file.
RestIsValid(f) == validateConfig([setDefaults(f) EXCEPT !.Interval = 60]) = "nil"

\* C15: a configuration file whose interval is exactly 0 is accepted by loading and
\* validation as one-shot: loading succeeds, the controller runs with interval 0 and
\* never waits on the ticker; any other interval below 1 minute is rejected.
C15_ZeroIntervalIsOneShot ==
    pc # "LoadConfig" =>
        /\ file[1].Interval = 0 /\ RestIsValid(file[1]) =>
                /\ pc # "exit"
                /\ config.Interval = 0
                /\ pc # "idle"
        /\ file[1].Interval # 0 /\ file[1].Interval < 60 => pc = "exit"

----------------------------------------------------------------------------
(* Node discovery over nodes of every kind (SpecNodes)                        *)

\* What getAvailableNodes and the node selector tell apart: an available node
\* labelled zone=a, disk=ssd; a node whose Ready condition is False or Unknown; a
\* node without a Ready condition; a cordoned node; a node of zone b; a node
\* without the disk label.
NodeKinds == {"plain", "notReady", "unknown", "noCondition", "cordoned", "zoneB", "noDisk"}

NodeOfKind(name, kind) ==
    [Name |-> name,
     Conditions |->
        <<Condition("MemoryPressure", "True")>>
        \o (CASE kind = "notReady" -> <<Condition("Ready", "False")>>
              [] kind = "unknown" -> <<Condition("Ready", "Unknown")>>
              [] kind = "noCondition" -> <<>>
              [] OTHER -> <<Condition("Ready", "True")>>),
     Unschedulable |-> (kind = "cordoned"),
     Labels |-> (CASE kind = "zoneB" -> ("zone" :> "b") @@ ("disk" :> "ssd")
                   [] kind = "noDisk" -> ("zone" :> "a")
                   [] OTHER -> ("zone" :> "a") @@ ("disk" :> "ssd")),
     Allocatable |-> [CPU |-> 1000, Memory |-> 1000, Pods |-> 4]]

\* Three nodes of any kind, each holding a Failed pod.
NodeClusters ==
    {[nodes |-> <<NodeOfKind("n1", k[1]), NodeOfKind("n2", k[2]), NodeOfKind("n3", k[3])>>,
      pods |-> PodsOf(<<FailedPod, FailedPod, FailedPod>>, <<"n1", "n2", "n3">>)] :
        k \in [1..3 -> NodeKinds]}

\* No selector, a selector of one label, a selector of two.
NodeSelectorChoices ==
    {NoAnnotations, "zone" :> "a", ("zone" :> "a") @@ ("disk" :> "ssd")}

NodeConfigs ==
    {[DryRun |-> TRUE, Interval |-> 300, NodeSelector |-> selector,
      Limits |-> [MaxPodsToEvictPerNode |-> 0, MaxPodsToEvictPerNamespace |-> 0,
                  MaxPodsToEvictTotal |-> 0],
      Strategies |-> [RemoveFailedPods |-> <<rfp>>, LowNodeUtilization |-> <<>>,
                      RemoveDuplicates |-> <<>>]] :
        selector \in NodeSelectorChoices, rfp \in RFPConfigs}

InitNodes ==
    /\ config \in NodeConfigs
    /\ cluster \in NodeClusters
    /\ InitProgram

NextNodes ==
    \/ Run
    \/ RunOnce_Reset
    \/ RunOnce_GetNodes
    \/ RunOnce_Strategy
    \/ RFP_Node
    \/ RFP_Pod
    \/ Tick

SpecNodes == InitNodes /\ [][NextNodes]_vars

\* A strategy is being executed, or runOnce is between two strategies.
InStrategies ==
    pc \in {"strategies", "rfp_node", "rfp_pod", "lnu_begin", "lnu_node", "lnu_pod",
            "rd_begin", "rd_pod"}

HasReadyTrue(node) ==
    \E i \in DOMAIN node.Conditions :
        node.Conditions[i].Type = "Ready" /\ node.Conditions[i].Status = "True"

ReadyAndSchedulable(node) == HasReadyTrue(node) /\ ~node.Unschedulable

HasEveryLabel(node) ==
    \A key \in DOMAIN config.NodeSelector :
        key \in DOMAIN node.Labels /\ node.Labels[key] = config.NodeSelector[key]

Selected(node) == ReadyAndSchedulable(node) /\ HasEveryLabel(node)

\* C21: while the strategies of a cycle are executed, the node list they are given
\* is the listed nodes, in listing order, that have a Ready condition of status
\* True, are not unschedulable and carry every label of the node selector with
\* its value (an empty selector matches all); at least 2 listed nodes are ready
\* and schedulable and at least 1 is in the list; every pod listing of a strategy
\* is for a node of the list.
C21_NodeFiltering ==
    InStrategies =>
        /\ sched.nodes = SelectSeq(cluster.nodes, Selected)
        /\ Len(SelectSeq(cluster.nodes, ReadyAndSchedulable)) >= 2
        /\ Len(sched.nodes) >= 1
        /\ \A i \in DOMAIN sched.listings :
                \E j \in DOMAIN sched.nodes : sched.nodes[j].Name = sched.listings[i].node

\* A strategy has listed the pods of the one node that passes a two-label
\* selector, beside a ready node of another zone and a cordoned node.
C21_Witness ==
    /\ InStrategies
    /\ DOMAIN config.NodeSelector = {"zone", "disk"}
    /\ Len(sched.nodes) = 1
    /\ Len(sched.listings) >= 1
    /\ \E i, j \in DOMAIN cluster.nodes :
        /\ ReadyAndSchedulable(cluster.nodes[i]) /\ ~HasEveryLabel(cluster.nodes[i])
        /\ HasReadyTrue(cluster.nodes[j]) /\ cluster.nodes[j].Unschedulable

----------------------------------------------------------------------------
(* A caller that keeps what GetEvictionStats returned (SpecCopy)              *)

\* The caller's GetEvictionStats: memo is the value it holds from then on.
Caller_GetEvictionStats ==
    /\ last' = [NoCall EXCEPT !.op = "GetEvictionStats", !.got = GetEvictionStatsResult.got]
    /\ memo' = [NoCall EXCEPT !.op = "GetEvictionStats",
                              !.got = GetEvictionStatsResult.got,
                              !.shared = GetEvictionStatsResult.shared]
    /\ UNCHANGED <<file, ticker, config, cluster, pc, cancelled, sched, gatekeeper, resetDirty,
                   mu, callers>>

\* The maps of st replaced by those of from.
WithMapsOf(st, from) ==
    [st EXCEPT !.EvictedByNode = from.EvictedByNode,
               !.EvictedByNamespace = from.EvictedByNamespace,
               !.EvictedByReason = from.EvictedByReason]

\* The pods and the reason EvictPod is called with beside the caller.
CopyPods == {pod \in EvictorPods : pod.Namespace = "default" /\ pod.NodeName # ""}

CopyReasons == {RD_reason("n1")}

\* EvictPod while the caller holds a value: updateStats writes to the evictor's
\* maps, and a held value that shares them shows the writes.
Caller_EvictPod ==
    \E pod \in CopyPods, reason \in CopyReasons :
    \E out \in EvictPodOutcomes(stats, pod, reason) :
        /\ out.stats.TotalEvicted <= MaxEvictions
        /\ out.stats.FailedEvictions <= MaxFailures
        /\ stats' = out.stats
        /\ last' = [NoCall EXCEPT !.op = "EvictPod", !.pod = pod, !.reason = reason,
                                  !.err = out.err, !.api = out.api]
        /\ memo' = IF memo.shared THEN [memo EXCEPT !.got = WithMapsOf(@, out.stats)]
                   ELSE memo
        /\ UNCHANGED <<file, ticker, config, cluster, pc, cancelled, sched, attempts, apiCalls,
                       resetDirty, mu, callers>>

\* ResetStats while the caller holds a value: the evictor gets three new maps, so
\* a held value shares nothing with it afterwards.
Caller_ResetStats ==
    /\ ResetStats
    /\ last' = [NoCall EXCEPT !.op = "ResetStats"]
    /\ memo' = [memo EXCEPT !.shared = FALSE]
    /\ UNCHANGED <<file, ticker, config, cluster, pc, cancelled, sched, attempts, apiCalls,
                   mu, callers>>

\* What the caller does to the value it holds: it zeroes the total, empties the
\* node map, or counts a first eviction under a reason of its own.
Modifications(got) ==
    {[got EXCEPT !.TotalEvicted = 0],
     [got EXCEPT !.EvictedByNode = EmptyMap],
     [got EXCEPT !.EvictedByReason = Incr(EmptyMap, "mine")]}

\* The caller modifies the value it holds; writes to a map the evictor shares are
\* writes to the evictor's statistics.
Caller_Modify ==
    /\ memo.op = "GetEvictionStats"
    /\ \E got \in Modifications(memo.got) :
        /\ got # memo.got
        /\ memo' = [memo EXCEPT !.got = got]
        /\ stats' = IF memo.shared THEN WithMapsOf(stats, got) ELSE stats
    /\ last' = [NoCall EXCEPT !.op = "Modify"]
    /\ UNCHANGED <<file, ticker, config, cluster, pc, cancelled, sched, attempts, apiCalls,
                   resetDirty, mu, callers>>

InitCopy ==
    /\ config \in {[c EXCEPT !.Limits = limits] : c \in EvictorConfigs, limits \in CycleLimits}
    /\ cluster = [nodes |-> <<>>, pods |-> <<>>]
    /\ InitProgram

NextCopy ==
    \/ Caller_GetEvictionStats
    \/ Caller_EvictPod
    \/ Caller_ResetStats
    \/ Caller_Modify

SpecCopy == InitCopy /\ [][NextCopy]_vars

\* C22: GetEvictionStats returns a deep copy. The value returned equals the
\* evictor's statistics at the moment of the call; an EvictPod or ResetStats call
\* made afterwards leaves a value returned before as it was; and a caller that
\* modifies the value it holds, its maps included, changes neither the evictor's
\* statistics nor the outcome of any later EvictPod.
C22_DeepCopy ==
    [][/\ last'.op = "GetEvictionStats" => memo'.got = stats /\ stats' = stats
       /\ last'.op \in {"EvictPod", "ResetStats"} /\ memo.op = "GetEvictionStats" =>
            memo'.got = memo.got
       /\ last'.op = "Modify" =>
            /\ stats' = stats
            /\ \A pod \in CopyPods, reason \in CopyReasons :
                EvictPodOutcomes(stats', pod, reason) = EvictPodOutcomes(stats, pod, reason)]_vars

\* The caller holds statistics with an eviction in them, has emptied the node map
\* of the value it holds, and an eviction was counted after that.
C22_Witness ==
    /\ memo.op = "GetEvictionStats"
    /\ memo.got.EvictedByNode = EmptyMap
    /\ memo.got.EvictedByNamespace # EmptyMap
    /\ "mine" \in DOMAIN memo.got.EvictedByReason
    /\ last.op = "EvictPod" /\ last.err = Nil
    /\ stats.TotalEvicted > memo.got.TotalEvicted
    /\ memo.got.TotalEvicted > 0

----------------------------------------------------------------------------
(* Dry-run cycles repeated over one snapshot (SpecTwice)                      *)

\* The cycle that just ended ran its strategies with every listing successful.
CompleteCycle ==
    /\ pc = "idle"
    /\ sched.printed
    /\ \A i \in DOMAIN sched.listings : sched.listings[i].ok

\* Between two cycles an observer reads the statistics of a complete cycle.
Observe_GetEvictionStats ==
    /\ CompleteCycle
    /\ last' = [NoCall EXCEPT !.op = "GetEvictionStats", !.got = GetEvictionStats]
    /\ UNCHANGED <<file, ticker, config, cluster, pc, cancelled, sched, gatekeeper, resetDirty,
                   mu, memo, callers>>

InitTwice ==
    /\ config \in {c \in CycleConfigs :
                      c.DryRun /\ c.Interval > 0 /\ c.NodeSelector = NoAnnotations}
    /\ cluster \in CycleClusters
    /\ InitProgram

NextTwice ==
    \/ Run
    \/ RunOnce_Reset
    \/ RunOnce_GetNodes
    \/ RunOnce_Strategy
    \/ RFP_Node
    \/ RFP_Pod
    \/ LNU_Begin
    \/ LNU_Node
    \/ LNU_Pod
    \/ RD_Begin
    \/ RD_Pod
    \/ Tick
    \/ Observe_GetEvictionStats

SpecTwice == InitTwice /\ [][NextTwice]_vars

\* C23: in dry-run mode, two complete cycles over the same snapshot and
\* configuration end with identical statistics (total, per node, per namespace,
\* per reason), whatever the quotas and whatever order the maps are iterated in.
C23_DryRunDeterminism ==
    CompleteCycle /\ config.DryRun /\ last.op = "GetEvictionStats" => stats = last.got

----------------------------------------------------------------------------
(* RemoveFailedPods over pods and filters of every kind (SpecFailed)          *)

\* What RemoveFailedPods tells apart: a Failed pod 600 s old; one 100 s old; one
\* of namespace prod; one owned by a Job; one owned by a Job and a ReplicaSet; a
\* Failed DaemonSet pod; a Failed pod being deleted; a Running and a Succeeded pod.
FailedKinds ==
    {FailedPod,
     [FailedPod EXCEPT !.CreationTimestamp = Now - 100],
     [FailedPod EXCEPT !.Namespace = "prod"],
     [FailedPod EXCEPT !.OwnerReferences = <<Owner("Job", "batch")>>],
     [FailedPod EXCEPT !.OwnerReferences = <<Owner("ReplicaSet", "web"), Owner("Job", "batch")>>],
     [FailedPod EXCEPT !.OwnerReferences = <<Owner("DaemonSet", "agent")>>],
     [FailedPod EXCEPT !.DeletionTimestamp = <<Now>>],
     BasePod,
     [BasePod EXCEPT !.Phase = "Succeeded"]}

\* Two ready nodes and a node that is not ready; a pod on n1 and a pod on n2 or n3.
FailedClusters ==
    {[nodes |-> <<Node("n1", TRUE), Node("n2", TRUE), Node("n3", FALSE)>>,
      pods |-> PodsOf(<<k1, k2>>, <<"n1", node>>)] :
        k1 \in FailedKinds, k2 \in FailedKinds, node \in {"n2", "n3"}}

FailedConfigs ==
    {[DryRun |-> TRUE, Interval |-> 0, NodeSelector |-> NoAnnotations,
      Limits |-> [MaxPodsToEvictPerNode |-> 0, MaxPodsToEvictPerNamespace |-> 0,
                  MaxPodsToEvictTotal |-> 0],
      Strategies |->
        [RemoveFailedPods |->
            <<[Enabled |-> TRUE, MinPodLifetimeSeconds |-> lifetime,
               ExcludeOwnerKinds |-> kinds,
               IncludedNamespaces |-> included, ExcludedNamespaces |-> excluded]>>,
         LowNodeUtilization |-> <<>>, RemoveDuplicates |-> <<>>]] :
        lifetime \in {0, 300, 700}, kinds \in {<<>>, <<"Job">>},
        included \in {<<>>, <<"default">>}, excluded \in {<<>>, <<"default">>, <<"prod">>}}

InitFailed ==
    /\ config \in FailedConfigs
    /\ cluster \in FailedClusters
    /\ InitProgram

NextFailed ==
    \/ Run
    \/ RunOnce_Reset
    \/ RunOnce_GetNodes
    \/ RunOnce_Strategy
    \/ RFP_Node
    \/ RFP_Pod

SpecFailed == InitFailed /\ [][NextFailed]_vars

InSeq(s, x) == \E i \in DOMAIN s : s[i] = x

\* The namespace filter: listed when namespaces are included, whatever is
\* excluded; otherwise not excluded.
NamespacePasses(c, namespace) ==
    IF c.IncludedNamespaces # <<>> THEN InSeq(c.IncludedNamespaces, namespace)
    ELSE ~InSeq(c.ExcludedNamespaces, namespace)

AgeOf(pod) == Now - pod.CreationTimestamp

FailedCleanupEligible(pod) ==
    /\ \E i \in DOMAIN cluster.nodes :
            Selected(cluster.nodes[i]) /\ cluster.nodes[i].Name = pod.NodeName
    /\ pod.Phase = "Failed"
    /\ CanEvictPod(pod).ok
    /\ NamespacePasses(RFPConfig, pod.Namespace)
    /\ RFPConfig.MinPodLifetimeSeconds > 0 => AgeOf(pod) >= RFPConfig.MinPodLifetimeSeconds
    /\ \A i \in DOMAIN pod.OwnerReferences :
            ~InSeq(RFPConfig.ExcludeOwnerKinds, pod.OwnerReferences[i].Kind)

FailedCleanupAttempts ==
    {i \in DOMAIN attempts : attempts[i].strategy = "RemoveFailedPods"}

\* C24: RemoveFailedPods calls EvictPod on a pod only if the pod is on a node of
\* the filtered set, its phase is Failed, CanEvictPod lets it through, its
\* namespace passes the filter, its age is at least minPodLifetimeSeconds when
\* that is positive, and none of its owner kinds is excluded; so when
\* minPodLifetimeSeconds exceeds the age of every Failed pod it evicts none.
C24_FailedCleanupEligibility ==
    /\ \A i \in FailedCleanupAttempts : FailedCleanupEligible(attempts[i].pod)
    /\ (\A j \in DOMAIN cluster.pods :
            cluster.pods[j].Phase = "Failed" =>
                AgeOf(cluster.pods[j]) < RFPConfig.MinPodLifetimeSeconds)
        => FailedCleanupAttempts = {} /\ stats.TotalEvicted = 0

\* A cycle ended in which a pod of namespace default, both included and
\* excluded, 600 s old with a minimum of 300, was evicted and a pod owned by a
\* Job, an excluded kind, was not.
C24_Witness ==
    /\ pc = "returned"
    /\ RFPConfig.IncludedNamespaces = <<"default">>
    /\ RFPConfig.ExcludedNamespaces = <<"default">>
    /\ RFPConfig.MinPodLifetimeSeconds = 300
    /\ RFPConfig.ExcludeOwnerKinds = <<"Job">>
    /\ Len(attempts) = 1 /\ attempts[1].err = Nil /\ stats.TotalEvicted = 1
    /\ \E j \in DOMAIN cluster.pods :
        /\ cluster.pods[j].Phase = "Failed" /\ cluster.pods[j].NodeName = "n2"
        /\ cluster.pods[j].OwnerReferences[1].Kind = "Job"

----------------------------------------------------------------------------
(* LowNodeUtilization over loads and thresholds of every kind (SpecBalance)   *)

SmallPod == [BasePod EXCEPT !.Containers = <<Container("nginx", 100, 200)>>]

MediumPod == [BasePod EXCEPT !.Containers = <<Container("nginx", 400, 400)>>]

DaemonPod == [SmallPod EXCEPT !.OwnerReferences = <<Owner("DaemonSet", "agent")>>]

\* What a node holds: nothing; 10% CPU; 90% CPU; 100% CPU; 75% of the pods; 100%
\* CPU with a DaemonSet pod listed first.
Loads ==
    {<<>>, <<SmallPod>>, <<BasePod, MediumPod>>, <<BasePod, BasePod>>,
     <<SmallPod, SmallPod, SmallPod>>, <<DaemonPod, BasePod, MediumPod>>}

OnNode(name, load) == [i \in DOMAIN load |-> name]

ClusterOf(nodes, l1, l2, l3) ==
    [nodes |-> nodes,
     pods |-> PodsOf(l1 \o l2 \o l3, OnNode("n1", l1) \o OnNode("n2", l2) \o OnNode("n3", l3))]

\* Three ready nodes, n1 and n2 with any load and n3 with a light one; and a
\* cluster whose nodes n2 and n3 lack the label disk.
BalanceClusters ==
    {ClusterOf(<<NodeOfKind("n1", "plain"), NodeOfKind("n2", "plain"),
                 NodeOfKind("n3", "plain")>>, l1, l2, l3) :
        l1 \in Loads, l2 \in Loads, l3 \in {<<>>, <<SmallPod>>}}
    \cup {ClusterOf(<<NodeOfKind("n1", "plain"), NodeOfKind("n2", "noDisk"),
                      NodeOfKind("n3", "noDisk")>>, <<BasePod, MediumPod>>, <<>>, <<>>)}

Uniform(percent) == [CPU |-> percent, Memory |-> percent, Pods |-> percent]

\* Thresholds below, above and between the target thresholds; the strategy alone,
\* no quota or one eviction in total; and the node selector disk=ssd.
BalanceConfigs ==
    {[DryRun |-> dryRun, Interval |-> 0, NodeSelector |-> selector,
      Limits |-> [MaxPodsToEvictPerNode |-> 0, MaxPodsToEvictPerNamespace |-> 0,
                  MaxPodsToEvictTotal |-> total],
      Strategies |->
        [RemoveFailedPods |-> <<>>,
         LowNodeUtilization |->
            <<[Enabled |-> TRUE, NumberOfNodes |-> numberOfNodes,
               Thresholds |-> Uniform(thresholds),
               TargetThresholds |-> Uniform(target)]>>,
         RemoveDuplicates |-> <<>>]] :
        dryRun \in BOOLEAN, selector \in {NoAnnotations, "disk" :> "ssd"},
        total \in {0, 1}, numberOfNodes \in {0, 1, 2},
        thresholds \in {0, 30, 90}, target \in {0, 40, 80}}

InitBalance ==
    /\ config \in {c \in BalanceConfigs :
                      \/ c.DryRun
                      \/ /\ c.NodeSelector = NoAnnotations
                         /\ c.Strategies["LowNodeUtilization"][1].NumberOfNodes = 1}
    /\ cluster \in BalanceClusters
    /\ InitProgram

NextBalance ==
    \/ Run
    \/ RunOnce_Reset
    \/ RunOnce_GetNodes
    \/ RunOnce_Strategy
    \/ LNU_Begin
    \/ LNU_Node
    \/ LNU_Pod

SpecBalance == InitBalance /\ [][NextBalance]_vars

\* The utilization records of the nodes the strategy works on.
RecordsOf(nodes) ==
    {CalculateNodeUtilization(nodes[i], ListPodsOnNode(nodes[i].Name)) :
        i \in {j \in DOMAIN nodes : ReadyAndSchedulable(nodes[j])}}

BelowAll(u, t) == u.CPUPercent < t.CPU /\ u.MemoryPercent < t.Memory /\ u.PodsPercent < t.Pods

AboveSome(u, t) == u.CPUPercent > t.CPU \/ u.MemoryPercent > t.Memory \/ u.PodsPercent > t.Pods

Range(s) == {s[i] : i \in DOMAIN s}

Evicting == pc \in {"lnu_node", "lnu_pod"}

\* C25: the list of under-utilized nodes holds the nodes whose three percentages
\* are all below thresholds, the list of over-utilized nodes those that are not
\* under-utilized and have a percentage above targetThresholds; no node is in
\* both lists, also when thresholds exceed targetThresholds.
C25_Classification ==
    Evicting =>
        LET records == RecordsOf(sched.nodes) IN
        /\ sched.low = {u \in records : BelowAll(u, LNUConfig.Thresholds)}
        /\ Range(sched.over) =
                {u \in records : /\ ~BelowAll(u, LNUConfig.Thresholds)
                                 /\ AboveSome(u, LNUConfig.TargetThresholds)}
        /\ Len(sched.over) = Cardinality(Range(sched.over))
        /\ sched.low \cap Range(sched.over) = {}

\* With thresholds above the target thresholds, a node is under-utilized while a
\* percentage of it is above the target, and another node is over-utilized.
C25_Witness ==
    /\ Evicting
    /\ LNUConfig.Thresholds.CPU > LNUConfig.TargetThresholds.CPU
    /\ \E u \in sched.low : AboveSome(u, LNUConfig.TargetThresholds)
    /\ sched.over # <<>>

\* The EvictPod calls of LowNodeUtilization in the cycle.
BalanceAttempts == {i \in DOMAIN attempts : attempts[i].strategy = "LowNodeUtilization"}

\* The nodes runOnce hands to the strategies, and their classification.
BalanceNodes == SelectSeq(cluster.nodes, Selected)

UnderUtilized ==
    {u \in RecordsOf(BalanceNodes) : BelowAll(u, LNUConfig.Thresholds)}

OverUtilized ==
    {u \in RecordsOf(BalanceNodes) :
        ~BelowAll(u, LNUConfig.Thresholds) /\ AboveSome(u, LNUConfig.TargetThresholds)}

\* C26: with thresholds and targetThresholds all 0 no node is under-utilized and
\* LowNodeUtilization calls EvictPod for no pod, whatever numberOfNodes is (0
\* included) and whatever the nodes hold.
C26_ZeroThresholdsShortCircuit ==
    (LNUConfig.Thresholds = Uniform(0) /\ LNUConfig.TargetThresholds = Uniform(0)) =>
        /\ Evicting => sched.low = {}
        /\ BalanceAttempts = {}

\* C27: LowNodeUtilization calls EvictPod only if at least 2 of the nodes it was
\* given are ready and schedulable, the under-utilized nodes are at least
\* numberOfNodes and at least one node is over-utilized.
C27_Precondition ==
    BalanceAttempts # {} =>
        /\ Len(SelectSeq(BalanceNodes, ReadyAndSchedulable)) >= 2
        /\ Cardinality(UnderUtilized) >= LNUConfig.NumberOfNodes
        /\ Cardinality(OverUtilized) >= 1

\* The strategy has evicted with exactly numberOfNodes = 2 under-utilized nodes
\* and one over-utilized node.
C27_Witness ==
    /\ BalanceAttempts # {}
    /\ LNUConfig.NumberOfNodes = 2
    /\ Cardinality(UnderUtilized) = 2
    /\ Cardinality(OverUtilized) = 1
    /\ stats.TotalEvicted >= 1

\* C28: LowNodeUtilization runs only when the under-utilized nodes are more than
\* numberOfNodes: with as many as numberOfNodes, and with numberOfNodes 0 and no
\* under-utilized node, it calls EvictPod for no pod.
C28_StrictlyGreater ==
    BalanceAttempts # {} => Cardinality(UnderUtilized) > LNUConfig.NumberOfNodes

\* The largest number of a non-empty finite set of numbers.
Largest(S) == CHOOSE x \in S : \A y \in S : y <= x

\* The per-node cap: a tenth of the largest excess over the target, rounded down,
\* and then at least 1 and at most 5.
Cap(u) ==
    LET t == LNUConfig.TargetThresholds
        maxExcess == Largest({0, u.CPUPercent - t.CPU, u.MemoryPercent - t.Memory,
                              u.PodsPercent - t.Pods})
        tenth == maxExcess \div 10
    IN  IF tenth < 1 THEN 1 ELSE IF tenth > 5 THEN 5 ELSE tenth

\* The EvictPod calls of LowNodeUtilization on the pods of a node, and those
\* that returned nil.
AttemptsOn(nodeName) == {i \in BalanceAttempts : attempts[i].pod.NodeName = nodeName}

EvictionsOn(nodeName) == {i \in AttemptsOn(nodeName) : attempts[i].err = Nil}

\* The cycle ended, LowNodeUtilization was run on successful listings in dry-run
\* without quota, and its precondition held.
BalanceRan ==
    /\ pc = "returned"
    /\ config.DryRun /\ config.Limits.MaxPodsToEvictTotal = 0
    /\ Len(sched.ran) = 1 /\ sched.ran[1].err = "nil"
    /\ \A i \in DOMAIN sched.listings : sched.listings[i].ok
    /\ Len(BalanceNodes) >= 2
    /\ Cardinality(UnderUtilized) >= LNUConfig.NumberOfNodes

\* C29: the cap of an over-utilized node is the largest of its three excesses
\* over the target (none below 0), divided by 10 and rounded down, then raised to
\* 1 and lowered to 5; it is in 1..5, and in one run of LowNodeUtilization no more
\* pods than the cap are evicted from the node. A node at 90% CPU against a target
\* of 80% has cap 1 and exactly one pod is evicted from it.
C29_PerNodeCap ==
    /\ pc = "lnu_pod" =>
            /\ sched.maxEvictions = Cap(sched.over[sched.ni])
            /\ sched.maxEvictions \in 1..5
    /\ \A u \in OverUtilized : Cardinality(EvictionsOn(u.NodeName)) <= Cap(u)
    /\ \A u \in OverUtilized :
            (u.CPUPercent = 90 /\ LNUConfig.TargetThresholds = Uniform(80)) =>
                /\ Cap(u) = 1
                /\ BalanceRan => Cardinality(EvictionsOn(u.NodeName)) = 1

\* A run has ended in which exactly one of the two pods of a node at 90% CPU,
\* target 80%, was evicted, and two pods of a node with cap 2.
C29_Witness ==
    /\ BalanceRan
    /\ LNUConfig.TargetThresholds = Uniform(80)
    /\ \E u, v \in OverUtilized :
        /\ u.CPUPercent = 90 /\ u.PodsCount = 2
        /\ Cardinality(EvictionsOn(u.NodeName)) = 1
        /\ Cap(v) = 2 /\ Cardinality(EvictionsOn(v.NodeName)) = 2

\* C30: an EvictPod call of LowNodeUtilization that is rejected for quota counts
\* toward the cap of the node, so the strategy calls EvictPod for no more pods of
\* an over-utilized node than its cap (in dry-run, where a call fails only for
\* quota).
C30_QuotaRejectionsCount ==
    config.DryRun =>
        \A u \in OverUtilized : Cardinality(AttemptsOn(u.NodeName)) <= Cap(u)

----------------------------------------------------------------------------
(* LowNodeUtilization over pods of every priority and phase (SpecPriority)    *)

QuarterPod == [BasePod EXCEPT !.Containers = <<Container("nginx", 250, 250)>>]

\* A pod of priority class high, priority 1000; a pod of class batch, priority
\* 0; a pod of class high whose priority is not set; a Succeeded and a Failed pod.
HighPod == [QuarterPod EXCEPT !.PriorityClassName = "high", !.Priority = <<1000>>]

ZeroPod == [QuarterPod EXCEPT !.PriorityClassName = "batch", !.Priority = <<0>>]

UnsetPod == [QuarterPod EXCEPT !.PriorityClassName = "high"]

DonePod == [QuarterPod EXCEPT !.Phase = "Succeeded"]

BrokenPod == [QuarterPod EXCEPT !.Phase = "Failed"]

\* What a node holds: 100% CPU, 75%, 50% with two pods that have ended, 25%, 0%.
PriorityLoads ==
    {<<HighPod, QuarterPod, HighPod, ZeroPod>>,
     <<UnsetPod, HighPod, QuarterPod>>,
     <<HighPod, DonePod, QuarterPod, BrokenPod>>,
     <<QuarterPod>>,
     <<>>}

PriorityClusters ==
    {ClusterOf(<<NodeOfKind("n1", "plain"), NodeOfKind("n2", "plain"),
                 NodeOfKind("n3", "plain")>>, l1, l2, l3) :
        l1 \in {l \in PriorityLoads : Len(l) >= 3}, l2 \in PriorityLoads,
        l3 \in {l \in PriorityLoads : Len(l) <= 1}}

PriorityConfigs ==
    {[DryRun |-> dryRun, Interval |-> 0, NodeSelector |-> NoAnnotations,
      Limits |-> [MaxPodsToEvictPerNode |-> 0, MaxPodsToEvictPerNamespace |-> 0,
                  MaxPodsToEvictTotal |-> total],
      Strategies |->
        [RemoveFailedPods |-> <<>>,
         LowNodeUtilization |->
            <<[Enabled |-> TRUE, NumberOfNodes |-> numberOfNodes,
               Thresholds |-> Uniform(30), TargetThresholds |-> Uniform(target)]>>,
         RemoveDuplicates |-> <<>>]] :
        dryRun \in BOOLEAN, total \in {0, 2}, numberOfNodes \in {0, 1},
        target \in {0, 40, 60}}

InitPriority ==
    /\ config \in PriorityConfigs
    /\ cluster \in PriorityClusters
    /\ InitProgram

NextPriority ==
    \/ Run
    \/ RunOnce_Reset
    \/ RunOnce_GetNodes
    \/ RunOnce_Strategy
    \/ LNU_Begin
    \/ LNU_Node
    \/ LNU_Pod

SpecPriority == InitPriority /\ [][NextPriority]_vars

\* A pod is of normal priority when it has a priority class and a priority above 0.
NormalPriority(pod) ==
    pod.PriorityClassName # "" /\ pod.Priority # <<>> /\ pod.Priority[1] > 0

\* The candidates of a node: its pods that have not ended and pass CanEvictPod, by
\* their place in the listing.
CandidatesOn(nodeName) ==
    {j \in DOMAIN cluster.pods :
        /\ cluster.pods[j].NodeName = nodeName
        /\ cluster.pods[j].Phase \notin {"Succeeded", "Failed"}
        /\ CanEvictPod(cluster.pods[j]).ok}

\* The place of a pod in the listing.
PlaceOf(pod) == CHOOSE j \in DOMAIN cluster.pods : cluster.pods[j] = pod

\* C31: on an over-utilized node the candidates are ordered with the low-priority
\* ones (no priority class, no priority, or priority <= 0) before the normal
\* ones, each group in listing order; no EvictPod call is made on a normal
\* candidate of a node before one has been made on every low-priority candidate
\* of that node.
C31_PriorityOrder ==
    /\ pc = "lnu_pod" =>
        /\ Range(sched.pods) =
                {cluster.pods[j] : j \in CandidatesOn(sched.over[sched.ni].NodeName)}
        /\ \A a, b \in DOMAIN sched.pods :
            a < b =>
                \/ ~NormalPriority(sched.pods[a]) /\ NormalPriority(sched.pods[b])
                \/ /\ NormalPriority(sched.pods[a]) = NormalPriority(sched.pods[b])
                   /\ PlaceOf(sched.pods[a]) < PlaceOf(sched.pods[b])
    /\ \A i \in BalanceAttempts :
        NormalPriority(attempts[i].pod) =>
            \A j \in CandidatesOn(attempts[i].pod.NodeName) :
                ~NormalPriority(cluster.pods[j]) =>
                    \E k \in BalanceAttempts : k < i /\ attempts[k].pod = cluster.pods[j]

\* On a node whose listing starts with a pod of priority 1000, EvictPod was called
\* for the two low-priority candidates, one of them of class batch with priority
\* 0, and then for a pod of priority 1000.
C31_Witness ==
    \E i, j, k \in BalanceAttempts :
        /\ i < j /\ j < k
        /\ attempts[i].pod.NodeName = "n1" /\ attempts[j].pod.NodeName = "n1"
        /\ attempts[k].pod.NodeName = "n1"
        /\ attempts[i].pod.PriorityClassName = ""
        /\ attempts[j].pod.Priority = <<0>>
        /\ NormalPriority(attempts[k].pod)
        /\ PlaceOf(attempts[k].pod) = 1

NamesOf(records) == {u.NodeName : u \in records}

\* C32: LowNodeUtilization calls EvictPod only for pods of nodes classified
\* over-utilized in that run, and only for pods that are neither Succeeded nor
\* Failed; no pod of an under-utilized node, or of a node that is neither, is
\* evicted by it.
C32_OnlyFromOverUtilized ==
    LET over == NamesOf(OverUtilized) IN
    /\ Evicting => NamesOf(Range(sched.over)) = over
    /\ \A i \in BalanceAttempts :
        /\ attempts[i].pod.NodeName \in over
        /\ attempts[i].pod.Phase \notin {"Succeeded", "Failed"}
    /\ \A n \in DOMAIN stats.EvictedByNode : n \in over

\* A run ended with evictions from n1 only, while n2, neither under- nor
\* over-utilized, holds a candidate, a Succeeded and a Failed pod, and the
\* under-utilized n3 holds a candidate.
C32_Witness ==
    /\ pc = "returned"
    /\ DOMAIN stats.EvictedByNode = {"n1"}
    /\ NamesOf(OverUtilized) = {"n1"}
    /\ NamesOf(UnderUtilized) = {"n3"}
    /\ CandidatesOn("n2") # {} /\ CandidatesOn("n3") # {}
    /\ \E j \in DOMAIN cluster.pods :
            cluster.pods[j].NodeName = "n2" /\ cluster.pods[j].Phase = "Failed"

-----------------------------------------------------------------------------
\* SpecDuplicates: one cycle of RemoveDuplicates alone over three ready nodes
\* whose pods are replicas of two ReplicaSets with different creation times,
\* replicas that CanEvictPod rejects, and pods the grouping leaves out.

WebPod(created) == [BasePod EXCEPT !.CreationTimestamp = created]

ApiPod(created) ==
    [BasePod EXCEPT !.CreationTimestamp = created,
                    !.OwnerReferences = <<Owner("ReplicaSet", "api")>>]

\* A replica of web with an emptyDir volume: CanEvictPod rejects it.
LocalPod(created) == [WebPod(created) EXCEPT !.Volumes = <<Volume("emptyDir")>>]

\* A replica of web that has failed.
EndedPod(created) == [WebPod(created) EXCEPT !.Phase = "Failed"]

ProdPod(created) == [WebPod(created) EXCEPT !.Namespace = "prod"]

JobPod(created) ==
    [BasePod EXCEPT !.CreationTimestamp = created,
                    !.OwnerReferences = <<Owner("Job", "web")>>]

BarePod(created) == [WebPod(created) EXCEPT !.OwnerReferences = <<>>]

DuplicateLoads ==
    {<<>>,
     <<WebPod(0)>>,
     <<WebPod(10)>>,
     <<WebPod(10), WebPod(0)>>,
     <<WebPod(10), WebPod(10), WebPod(0)>>,
     <<LocalPod(0), WebPod(10)>>,
     <<WebPod(0), LocalPod(10)>>,
     <<EndedPod(0), WebPod(10)>>,
     <<ProdPod(10), ProdPod(0)>>,
     <<JobPod(10), JobPod(0)>>,
     <<BarePod(0), BarePod(10)>>,
     <<ApiPod(10), WebPod(10), ApiPod(0)>>}

\* Two nodes with one replica of web each, created 10 s apart.
PairOfReplicas ==
    ClusterOf(<<NodeOfKind("n1", "plain"), NodeOfKind("n2", "plain")>>,
              <<WebPod(0)>>, <<WebPod(10)>>, <<>>)

DuplicateClusters ==
    {ClusterOf(<<NodeOfKind("n1", "plain"), NodeOfKind("n2", "plain"),
                 NodeOfKind("n3", "plain")>>, l1, l2, l3) :
        l1 \in DuplicateLoads,
        l2 \in {<<>>, <<WebPod(0)>>, <<WebPod(10), WebPod(0)>>, <<ApiPod(0)>>,
                <<EndedPod(0)>>, <<LocalPod(0)>>},
        l3 \in {<<>>, <<WebPod(0)>>}}
    \cup {PairOfReplicas}

DuplicateConfigs ==
    {[DryRun |-> dryRun, Interval |-> 0, NodeSelector |-> NoAnnotations,
      Limits |-> [MaxPodsToEvictPerNode |-> 0, MaxPodsToEvictPerNamespace |-> 0,
                  MaxPodsToEvictTotal |-> total],
      Strategies |->
        [RemoveFailedPods |-> <<>>, LowNodeUtilization |-> <<>>,
         RemoveDuplicates |->
            <<[Enabled |-> TRUE, ExcludeOwnerKinds |-> kinds,
               IncludedNamespaces |-> included, ExcludedNamespaces |-> excluded]>>]] :
        dryRun \in BOOLEAN, total \in {0, 1}, kinds \in {<<>>, <<"Job">>},
        included \in {<<>>, <<"default">>}, excluded \in {<<>>, <<"default">>, <<"prod">>}}

InitDuplicates ==
    /\ config \in DuplicateConfigs
    /\ cluster \in DuplicateClusters
    /\ InitProgram

NextDuplicates ==
    \/ Run
    \/ RunOnce_Reset
    \/ RunOnce_GetNodes
    \/ RunOnce_Strategy
    \/ RD_Begin
    \/ RD_Pod

SpecDuplicates == InitDuplicates /\ [][NextDuplicates]_vars

\* What the grouping of RemoveDuplicates requires of a pod.
Groupable(pod) ==
    /\ pod.Phase = "Running"
    /\ NamespacePasses(RDConfig, pod.Namespace)
    /\ Len(pod.OwnerReferences) >= 1
    /\ \A i \in DOMAIN pod.OwnerReferences :
            ~InSeq(RDConfig.ExcludeOwnerKinds, pod.OwnerReferences[i].Kind)

\* Pods j and k of the cluster are in the same group: both groupable, on the
\* same node, with the same signature.
SameGroup(j, k) ==
    /\ Groupable(cluster.pods[j]) /\ Groupable(cluster.pods[k])
    /\ cluster.pods[j].NodeName = cluster.pods[k].NodeName
    /\ GeneratePodSignature(cluster.pods[j]) = GeneratePodSignature(cluster.pods[k])

\* Pod k comes before pod j by creation time, and by listing when the times are equal.
Before(k, j) ==
    \/ cluster.pods[k].CreationTimestamp < cluster.pods[j].CreationTimestamp
    \/ cluster.pods[k].CreationTimestamp = cluster.pods[j].CreationTimestamp /\ k < j

\* The pods that are not the oldest of their group.
NotOldest == {j \in DOMAIN cluster.pods :
                \E k \in DOMAIN cluster.pods : k # j /\ SameGroup(j, k) /\ Before(k, j)}

\* The step in which Execute has grouped the pods and found the duplicate nodes.
Grouped ==
    /\ pc = "rd_begin"
    /\ \/ pc' = "rd_pod"
       \/ pc' = "strategies" /\ sched'.ran[Len(sched'.ran)].err = "nil"

PassedOn(work) == {work[i].pod : i \in DOMAIN work}

\* C33: once the grouping is done, every pod that is not the oldest of its
\* signature on its node is handed to the eviction loop, whether or not the
\* signature is found on another node.
C33_DuplicateNodeSelection ==
    [][Grouped => \A j \in NotOldest : cluster.pods[j] \in PassedOn(sched'.work)]_vars


\* A cycle of RemoveDuplicates ended with every listing done and no eviction refused.
DuplicatesDone ==
    /\ pc = "returned"
    /\ sched.ret = "nil"
    /\ \A i \in DOMAIN sched.listings : sched.listings[i].ok
    /\ \A i \in DOMAIN attempts : attempts[i].err = Nil

\* C34: over two nodes that hold one Running replica of the same ReplicaSet
\* each, created at 0 and at 10, a cycle of RemoveDuplicates ends with one
\* eviction, that of the newer replica, for the reason "Duplicate pod removal".
C34_DuplicateSpreadScenario ==
    DuplicatesDone /\ cluster = PairOfReplicas /\ Groupable(WebPod(0))
        => /\ stats.TotalEvicted = 1
           /\ Len(attempts) = 1
           /\ attempts[1].pod.CreationTimestamp = 10
           /\ \E i \in DOMAIN cluster.nodes :
                    attempts[1].reason = RD_reason(cluster.nodes[i].Name)


\* The place of a pod in the cluster's listing.
IndexOf(pod) == CHOOSE j \in DOMAIN cluster.pods : cluster.pods[j].Name = pod.Name

\* s is in ascending order of creation time, the pods of equal time in listing order.
AscendingByAge(s) ==
    \A a, b \in DOMAIN s : a < b => Before(IndexOf(s[a]), IndexOf(s[b]))

DuplicateAttempts == {i \in DOMAIN attempts : attempts[i].strategy = "RemoveDuplicates"}

\* C35: sortPodsByAge puts each group of a signature on a node in ascending
\* order of creation time and keeps the listing order of the pods created at
\* the same time; the pods handed to the eviction loop and those given to
\* EvictPod are never the oldest of their group, and they come oldest first
\* within a group; so the oldest of every group is never deleted.
C35_KeepsOldest ==
    /\ pc \in {"rd_begin", "rd_pod"} =>
            \A signature \in podSignatures : \A i \in DOMAIN sched.nodes :
                LET pods == podGroup(signature, sched.nodes[i].Name)
                    sortedPods == sortPodsByAge(pods)
                IN  /\ Len(sortedPods) = Len(pods)
                    /\ Range(sortedPods) = Range(pods)
                    /\ AscendingByAge(sortedPods)
    /\ \A i \in DOMAIN sched.work :
            /\ IndexOf(sched.work[i].pod) \in NotOldest
            /\ \A k \in DOMAIN sched.work :
                    i < k /\ SameGroup(IndexOf(sched.work[i].pod), IndexOf(sched.work[k].pod))
                        => Before(IndexOf(sched.work[i].pod), IndexOf(sched.work[k].pod))
    /\ \A i \in DuplicateAttempts : IndexOf(attempts[i].pod) \in NotOldest
    /\ \A j \in DOMAIN cluster.pods :
            Groupable(cluster.pods[j]) /\ j \notin NotOldest
                => \A i \in DOMAIN apiCalls : apiCalls[i] # cluster.pods[j].Name

\* A cycle ended in which n1 listed two replicas created at 10 before one
\* created at 0, and the two created at 10 were deleted in their listing order.
C35_Witness ==
    /\ pc = "returned"
    /\ ~config.DryRun
    /\ \E j \in DOMAIN cluster.pods :
            /\ j + 2 \in DOMAIN cluster.pods
            /\ cluster.pods[j].NodeName = "n1" /\ cluster.pods[j + 2].NodeName = "n1"
            /\ cluster.pods[j].CreationTimestamp = 10
            /\ cluster.pods[j + 1].CreationTimestamp = 10
            /\ cluster.pods[j + 2].CreationTimestamp = 0
            /\ apiCalls = <<cluster.pods[j].Name, cluster.pods[j + 1].Name>>
            /\ stats.TotalEvicted = 2

\* The pods other than pod j that are in its group.
Companions(j) == {k \in DOMAIN cluster.pods : k # j /\ SameGroup(j, k)}

\* C36 as stated: every pod RemoveDuplicates gives to EvictPod is Running,
\* passes the namespace filter, has an owner, has no excluded owner kind and
\* passes CanEvictPod, and it counts as a duplicate only because of pods that
\* meet all five conditions.
C36_AsStated ==
    \A i \in DuplicateAttempts :
        LET j == IndexOf(attempts[i].pod)
        IN  /\ Groupable(cluster.pods[j])
            /\ CanEvictPod(cluster.pods[j]).ok
            /\ \E k \in Companions(j) : CanEvictPod(cluster.pods[k]).ok

\* C36: every pod RemoveDuplicates gives to EvictPod is Running, passes the
\* namespace filter, has an owner, has no excluded owner kind and passes
\* CanEvictPod; pods failing one of the first four conditions are not handed to
\* the eviction loop and do not make another pod a duplicate, while a pod that
\* only CanEvictPod rejects is grouped and does.
C36_Eligibility ==
    /\ \A i \in DOMAIN sched.work :
            LET j == IndexOf(sched.work[i].pod)
            IN  Groupable(cluster.pods[j]) /\ Companions(j) # {}
    /\ \A i \in DuplicateAttempts :
            LET j == IndexOf(attempts[i].pod)
            IN  /\ Groupable(cluster.pods[j])
                /\ CanEvictPod(cluster.pods[j]).ok
                /\ Companions(j) # {}

\* A cycle ended with one eviction from n1, of a replica whose only companions
\* there are replicas that CanEvictPod rejects for their emptyDir volume.
C36_Witness ==
    /\ pc = "returned"
    /\ Len(attempts) = 1 /\ attempts[1].err = Nil /\ stats.TotalEvicted = 1
    /\ attempts[1].pod.NodeName = "n1"
    /\ Companions(IndexOf(attempts[1].pod)) # {}
    /\ \A k \in Companions(IndexOf(attempts[1].pod)) : ~CanEvictPod(cluster.pods[k]).ok

-----------------------------------------------------------------------------
\* SpecSignature: GeneratePodSignature called on pods that differ in namespace,
\* owners, containers, name, node and phase; last holds the latest call and
\* memo the one before it.

SignaturePods ==
    {[BasePod EXCEPT !.Name = place[1], !.NodeName = place[2], !.Phase = place[3],
                     !.Namespace = namespace, !.OwnerReferences = owners,
                     !.Containers = [i \in DOMAIN images |-> Container(images[i], 500, 500)]] :
        place \in {<<"web-1", "n1", "Running">>, <<"web-2", "n2", "Failed">>},
        namespace \in {"default", "prod"},
        owners \in {<<>>, <<Owner("ReplicaSet", "web")>>,
                    <<Owner("ReplicaSet", "web"), Owner("Deployment", "web")>>,
                    <<Owner("Deployment", "web"), Owner("ReplicaSet", "web")>>},
        images \in {<<"nginx">>, <<"nginx", "nginx">>, <<"nginx", "busybox">>,
                    <<"redis", "nginx", "busybox">>, <<"busybox", "redis", "nginx">>}}

Call_GeneratePodSignature ==
    \E pod \in SignaturePods :
        /\ last' = [NoCall EXCEPT !.op = "GeneratePodSignature", !.pod = pod,
                                  !.signature = GeneratePodSignature(pod)]
        /\ memo' = last
        /\ UNCHANGED <<file, ticker, config, cluster, pc, cancelled, sched, gatekeeper, resetDirty,
                       mu, callers>>

InitSignature ==
    /\ config \in {c \in DuplicateConfigs :
                        /\ c.DryRun /\ c.Limits.MaxPodsToEvictTotal = 0
                        /\ c.Strategies["RemoveDuplicates"][1].ExcludeOwnerKinds = <<>>
                        /\ c.Strategies["RemoveDuplicates"][1].IncludedNamespaces = <<>>
                        /\ c.Strategies["RemoveDuplicates"][1].ExcludedNamespaces = <<>>}
    /\ cluster = [nodes |-> <<>>, pods |-> <<>>]
    /\ InitProgram

NextSignature == Call_GeneratePodSignature

SpecSignature == InitSignature /\ [][NextSignature]_vars

\* How many containers of the pod run the image.
ImageCount(pod, image) ==
    Cardinality({i \in DOMAIN pod.Containers : pod.Containers[i].Image = image})

SameImages(p, q) == \A image \in Range(ImageOrder) : ImageCount(p, image) = ImageCount(q, image)

\* q is p with its two owner references, which differ, in the other order.
OwnersSwapped(p, q) ==
    /\ Len(p.OwnerReferences) = 2
    /\ p.OwnerReferences[1] # p.OwnerReferences[2]
    /\ q = [p EXCEPT !.OwnerReferences = <<p.OwnerReferences[2], p.OwnerReferences[1]>>]

\* C37: two pods of the same namespace, with the same owner references in the
\* same order and the same images counted with their multiplicity, have the
\* same signature, whatever their names, nodes, phases and the order of their
\* containers; a pod with two different owners and the same pod with the
\* owners swapped have different signatures.
C37_SignatureDeterminism ==
    last.op = "GeneratePodSignature" /\ memo.op = "GeneratePodSignature" =>
        /\ (/\ last.pod.Namespace = memo.pod.Namespace
            /\ last.pod.OwnerReferences = memo.pod.OwnerReferences
            /\ SameImages(last.pod, memo.pod))
                => last.signature = memo.signature
        /\ OwnersSwapped(memo.pod, last.pod) => last.signature # memo.signature

\* Two calls returned the same signature for pods of different name, node and
\* phase whose three containers come in different orders.
C37_Witness ==
    /\ last.op = "GeneratePodSignature" /\ memo.op = "GeneratePodSignature"
    /\ last.signature = memo.signature
    /\ last.pod.Name # memo.pod.Name
    /\ last.pod.NodeName # memo.pod.NodeName
    /\ last.pod.Phase # memo.pod.Phase
    /\ Len(last.pod.Containers) = 3
    /\ last.pod.Containers # memo.pod.Containers

-----------------------------------------------------------------------------
\* SpecTicker: Run's loop with its ticker. The ticker sends on a channel that
\* buffers one tick, at any time from its creation on, and Run receives from
\* the channel only in its select, between two cycles.

\* The runtime sends a tick on ticker.C without blocking: the tick is dropped
\* when the channel's buffer of one is full.
Ticker_SendQueues ==
    /\ config.Interval # 0
    /\ pc \notin {"Run", "returned"}
    /\ ticker < 3
    /\ ticker' = ticker + 1
    /\ UNCHANGED <<config, cluster, pc, cancelled, sched, gatekeeper, resetDirty,
                   file, mu, last, memo, callers>>

Ticker_Send ==
    /\ config.Interval # 0
    /\ pc \notin {"Run", "returned"}
    /\ ticker' = IF ticker < 1 THEN ticker + 1 ELSE ticker
    /\ UNCHANGED <<config, cluster, pc, cancelled, sched, gatekeeper, resetDirty,
                   file, mu, last, memo, callers>>

\* Run's select, case <-ticker.C: a buffered tick is received and the next
\* cycle starts.
Run_Tick ==
    /\ pc = "idle"
    /\ ticker > 0
    /\ ticker' = ticker - 1
    /\ pc' = "runOnce"
    /\ UNCHANGED <<config, cluster, cancelled, sched, gatekeeper, resetDirty,
                   file, mu, last, memo, callers>>

InitTicker ==
    /\ config \in {c \in CycleConfigs : c.Interval # 0 /\ c.NodeSelector = NoAnnotations}
    /\ cluster \in {PairCluster, BusyCluster}
    /\ InitProgram

NextTicker ==
    \/ Run
    \/ RunOnce_Reset
    \/ RunOnce_GetNodes
    \/ RunOnce_Strategy
    \/ RFP_Node
    \/ RFP_Pod
    \/ LNU_Begin
    \/ LNU_Node
    \/ LNU_Pod
    \/ RD_Begin
    \/ RD_Pod
    \/ Ticker_Send
    \/ Run_Tick
    \/ CtxDone
    \/ Cancel

SpecTicker == InitTicker /\ [][NextTicker]_vars

\* No cycle is in progress: Run has not called runOnce yet, waits in its
\* select, or has returned.
BetweenCycles == pc \in {"Run", "idle", "returned"}

\* C38: a cycle starts only when no cycle is in progress, and a strategy only
\* from runOnce's loop over the strategies, when no strategy is executing; a
\* tick sent during a cycle starts nothing, it waits in the channel until the
\* cycle has returned; and the channel never holds more than one tick.
C38_NoOverlappingCycles ==
    /\ [](ticker <= 1)
    /\ [][/\ pc' = "runOnce" /\ pc' # pc => pc \in {"Run", "idle"}
          /\ pc' \in {"rfp_node", "lnu_begin", "rd_begin"} /\ pc' # pc
                => pc = "strategies" \/ (pc = "rfp_pod" /\ pc' = "rfp_node")
          /\ ~BetweenCycles /\ ticker' # ticker
                => ticker' = 1 /\ pc' = pc /\ sched' = sched /\ stats' = stats]_vars

\* A tick waits in the channel while a cycle that has evicted a pod is in progress.
C38_Witness ==
    /\ ~BetweenCycles
    /\ ticker = 1
    /\ stats.TotalEvicted > 0

-----------------------------------------------------------------------------
\* The counters of the evictor against each other (SpecEvictor)

\* The evictions that no node was charged with.
Unplaced(st) == st.TotalEvicted - MapSum(st.EvictedByNode)

\* C39: the total is at all times the sum of the per-namespace counters and
\* the sum of the per-reason counters, and at least the sum of the per-node
\* counters. An eviction of a pod that has a node name adds one to the total
\* and to the counter of its node; one of a pod without a node name adds one to
\* the total and to no node, so that the total exceeds the per-node sum by the
\* number of such evictions since the last reset, and is never refused for the
\* per-node limit; a failed eviction adds one to FailedEvictions and changes
\* neither the total nor any map; ResetStats puts everything back to zero.
C39_StatisticsConsistency ==
    /\ [](/\ stats.TotalEvicted = MapSum(stats.EvictedByNamespace)
          /\ stats.TotalEvicted = MapSum(stats.EvictedByReason)
          /\ MapSum(stats.EvictedByNode) <= stats.TotalEvicted
          /\ "" \notin DOMAIN stats.EvictedByNode)
    /\ [][/\ last'.op = "EvictPod" /\ last'.err = Nil =>
                /\ stats'.TotalEvicted = stats.TotalEvicted + 1
                /\ stats'.FailedEvictions = stats.FailedEvictions
                /\ Unplaced(stats') =
                        Unplaced(stats) + (IF last'.pod.NodeName = "" THEN 1 ELSE 0)
          /\ last'.op = "EvictPod" /\ last'.err # Nil =>
                /\ [stats' EXCEPT !.FailedEvictions = 0] = [stats EXCEPT !.FailedEvictions = 0]
                /\ stats'.FailedEvictions =
                        stats.FailedEvictions + (IF last'.err = ApiError THEN 1 ELSE 0)
          /\ last'.op = "EvictPod" /\ last'.pod.NodeName = "" => last'.err.kind # "node"
          /\ last'.op = "ResetStats" => stats' = ZeroStats]_vars

\* With a per-node limit of 1, two pods without a node name and one of n1 were
\* evicted and one eviction failed: the total is 3 and the per-node sum 1.
C39_Witness ==
    /\ config.Limits.MaxPodsToEvictPerNode = 1
    /\ stats.TotalEvicted = 3
    /\ MapSum(stats.EvictedByNode) = 1
    /\ stats.FailedEvictions = 1

-----------------------------------------------------------------------------
\* What LoadConfig leaves in an accepted configuration (SpecLoad)

\* main went past LoadConfig without exiting.
Accepted == pc \notin {"LoadConfig", "exit"}

============================================================================
